---- MODULE Spec2Model ----
(***************************************************************************)
(* A model of the expert grouping and merging engine of HC-SMoE            *)
(* (src/hcsmoe/merging/grouping_mixtral.py).                                *)
(*                                                                         *)
(* Numbers.  Similarities are kept in hundredths (SimOne = 1.0), so the    *)
(* sentinel -100 of the source is -100 * SimOne.  A usage vector is a      *)
(* vector of integer numerators over one denominator per layer             *)
(* (value = num[e] / den), which keeps the divisions of the source exact.  *)
(* Expert weights are integers on the grid of the storage precision.       *)
(***************************************************************************)
EXTENDS Integers, Sequences, FiniteSets, TLC

\* ---------------------------------------------------------------- bounds
MaxExperts == 4         \* config.num_local_experts ranges over TopK..MaxExperts
NumHiddenLayers == 2    \* config.num_hidden_layers
MaxPool == 4            \* experts over all eligible layers (length of the usage pool)
MaxUsage == 1           \* usage / knowledge levels 0..MaxUsage of the grouping inputs
MaxSimLevel == 1        \* off-diagonal similarities are k * SimOne / MaxSimLevel
MaxRuns == 2            \* calls of the grouping function on one grouper
MaxAssignPool == 6      \* length of the usage pool when only the group counts are assigned
MaxAssignTokens == 6    \* tokens behind the usage of SpecAssignTokens: 1..MaxAssignTokens
MaxCount == 4           \* routing counts 0..MaxCount behind a usage frequency
MaxLogit == 1           \* router logits 0..MaxLogit
MaxTokens == 2          \* tokens of one calibration batch: 1..MaxTokens
MaxBatches == 2         \* batches of one calibration stream: 1..MaxBatches
FeatureDim == 2         \* length of the vector a similarity basis gives per expert
MaxFeature == 1         \* its components are -1..MaxFeature, in units of 1/FeatureGrid
FeatureGrid == 4        \* components are multiples of 1/FeatureGrid
MaxMergeExperts == 3    \* experts of the block a merge is called on
MaxWeight == 2          \* an expert's weight matrices are values 1..MaxWeight
UsageUnit == 1000       \* a non-zero usage or coefficient, in units of FP32_EPS
MaxChainExperts == 5     \* experts of the layer an eviction chain is followed on
MaxModeExperts == 3      \* experts of the layer whose usage is computed in both modes
ProbGrid == 2            \* routing probabilities are k / ProbGrid
MaxDrift == 6            \* the member counters are followed within -MaxDrift..MaxDrift
MaxChainLimit == 3       \* group_limit and the group count of that layer: TopK..MaxChainLimit
MaxPartLayers == 4      \* eligible layers of the merge by groups: 1..MaxPartLayers
MaxPartition == 5       \* its partition argument: 1..MaxPartition
MaxKnowledge == 2       \* a unit's knowledge score: 0..MaxKnowledge
MaxDff == 2             \* d_ff, the units of one expert: 1..MaxDff
MaxFfn == 3             \* experts of the group a zip merge is given: 2..MaxFfn
MaxUnits == 4           \* d_ff * num_ffn, the units of the concatenated expert
MaxUnitWeight == 1      \* a unit's w1 / w2 / w3 entry: 0..MaxUnitWeight

\* ------------------------------------------------------- program constants
TopK == 2               \* torch.topk(all_router_logits, 2, dim=-1)
SimOne == 100           \* torch.eye: the self-similarity 1.0, in hundredths
Sentinel == -10000      \* similarity_matrix[...] = -100, in hundredths
FP32_EPS == 1           \* the unit in which merge weights are counted
CorrOne == 100000       \* the correlation 1.0 (the diagonal is set to -1)
AlphaInverse == 10      \* alpha_for_repeated_merging = 0.1

\* ------------------------------------------------------------- the state
VARIABLES
    num_experts,            \* self.num_experts
    start_layer,            \* start_layer of __init__
    group_limit,            \* self.group_limit
    num_average_groups,     \* the num_average_groups / num_groups argument
    entry,                  \* which grouping function is running
    usage,                  \* self._usage_frequency_state_dict
    similarity_state,       \* self._similarity_state_dict
    group_state,            \* self._group_state_dict
    pc,                     \* position in the running function
    layer_idx,              \* the layer of the per-layer loop
    i,                      \* the expert of the assignment loop
    num_groups_per_layer,   \* result of _assign_num_groups_per_layer
    core_expert_indices,    \* locals of the per-layer loop body ...
    group_member_count,
    group_dict,
    similarity_matrix,
    most_similar_core,
    most_similar_group_label,
    unsimilar_idx,
    dom_experts,            \* the returned dictionary
    error,                  \* the exception that ended the call, or "none"
    runs,                   \* number of calls started
    prev_result,            \* labels and cores returned by the previous call
    batch_idx,              \* batches the running compute_all_usages has consumed
    similarity_fn,          \* the key of self.similarity_fn
    features,               \* what the similarity basis yields for each expert
    experts_weights,        \* ffn.experts[e].w1/w2/w3.weight of one MoE block
    experts,                \* the module each slot of ffn.experts references
    merge_args,             \* arguments of the running merge
    weights_before,         \* the block's weights when the merge was called
    d_ff,                   \* ffn_list[0].w1.out_features
    ingredient,             \* the ingredient argument of the activation matching
    ffn_list,               \* the experts' units as the merge was given them
    ffn_all,                \* ffn_all_w1 / ffn_all_w2 / ffn_all_w3, unit by unit
    corr_matrix,
    permutation_matrix,     \* as a sequence of its columns
    average_coefs,
    similarity_base,        \* self.similarity_base
    stage,                  \* the function that is collecting activations
    hooks,                  \* the hooks registered on modules of the model
    handles,                \* the running function's list of hook handles
    mode,                   \* the mode argument of the running compute_all_usages
    usage_alone,            \* the usage state of a freshly constructed grouper
                            \* given the stream of the last call
    knowledge_weight,       \* the knowledge scores of a group's experts, unit by unit
    dominant_index,         \* the dominant_index argument of the dominant merge
    dom_act,                \* the activations the other members are correlated with
    group_indexes,          \* the max_index of every correlation, in order
    kd_labels,              \* the distillation targets, batch by batch
    model_layers,           \* model.model.layers[l].block_sparse_moe of every layer
    partition,              \* the partition argument of the merge by groups
    layer_list,             \* grouper.sparse_layer_indices as the merge reads it
    cur_indices,            \* the layers of the running part_processor
    merge_log               \* the layers whose block was replaced, in order

vars == <<num_experts, start_layer, group_limit, num_average_groups, entry, usage,
          similarity_state, group_state, pc, layer_idx, i, num_groups_per_layer,
          core_expert_indices, group_member_count, group_dict, similarity_matrix,
          most_similar_core, most_similar_group_label, unsimilar_idx, dom_experts,
          error, runs, prev_result, batch_idx, similarity_fn, features, experts_weights,
          experts, merge_args, weights_before, d_ff, ingredient, ffn_list, ffn_all,
          corr_matrix, permutation_matrix, average_coefs, similarity_base,
          stage, hooks, handles, mode, usage_alone, knowledge_weight,
          dominant_index, dom_act, group_indexes, kd_labels, model_layers,
          partition, layer_list, cur_indices, merge_log>>

hook_vars == <<stage, hooks, handles>>

mode_vars == <<mode, usage_alone>>

partition_vars == <<partition, layer_list, cur_indices, merge_log>>

strategy_vars == <<knowledge_weight, dominant_index, dom_act, group_indexes,
                   kd_labels, model_layers, partition_vars>>

zip_vars == <<d_ff, ingredient, ffn_list, ffn_all, corr_matrix, permutation_matrix,
              average_coefs>>

\* --------------------------------------------------------------- helpers
Experts == 0 .. num_experts - 1

\* self.sparse_layer_indices = list(range(start_layer, config.num_hidden_layers))
sparse_layer_indices == start_layer .. NumHiddenLayers - 1

ExpertsOf(n) == 0 .. n - 1
LayersFrom(s) == s .. NumHiddenLayers - 1

NoMatrix == <<>>

\* No exception, and an exception with the layer index its message names
NoError == [kind |-> "none", layer |-> -1]

\* An exception raised outside the per-layer loops
Raised(kind) == [kind |-> kind, layer |-> -1]

\* torch.argmax / torch.argmin of a non-empty 1-d tensor (a sequence): the
\* position (1-based here) of the first maximal / minimal value.
ArgmaxPos(s) ==
    CHOOSE k \in 1 .. Len(s) :
        /\ \A j \in 1 .. Len(s) : s[j] <= s[k]
        /\ \A j \in 1 .. k - 1 : s[j] < s[k]

ArgminPos(s) ==
    CHOOSE k \in 1 .. Len(s) :
        /\ \A j \in 1 .. Len(s) : s[j] >= s[k]
        /\ \A j \in 1 .. k - 1 : s[j] > s[k]

\* torch.argsort(v, descending=True) of a vector v over 0..n-1, as a sequence.
\* Equal values keep their index order (the CPU sort kernel is a stable sort).
ArgsortDescending(v, n) ==
    LET rank(e) == Cardinality({f \in ExpertsOf(n) :
                        v[f] > v[e] \/ (v[f] = v[e] /\ f < e)})
    IN  [k \in 1 .. n |-> CHOOSE e \in ExpertsOf(n) : rank(e) = k - 1]

\* s[:k]
Prefix(s, k) == [j \in 1 .. (IF k < Len(s) THEN k ELSE Len(s)) |-> s[j]]

Range(s) == {s[j] : j \in 1 .. Len(s)}

\* list.remove(x): drops the first occurrence of x
RemoveFirst(s, x) ==
    LET p == CHOOSE k \in 1 .. Len(s) : s[k] = x /\ \A j \in 1 .. k - 1 : s[j] # x
    IN  [j \in 1 .. Len(s) - 1 |-> IF j < p THEN s[j] ELSE s[j + 1]]

\* A symmetric matrix with diagonal SimOne from its entries above the diagonal
PairsOf(n) == {p \in ExpertsOf(n) \X ExpertsOf(n) : p[1] < p[2]}

MatrixOf(upper, n) ==
    [a \in ExpertsOf(n) |-> [b \in ExpertsOf(n) |->
        IF a = b THEN SimOne
        ELSE IF a < b THEN upper[<<a, b>>] ELSE upper[<<b, a>>]]]

SimValues == {(k * SimOne) \div MaxSimLevel : k \in 0 .. MaxSimLevel}

RECURSIVE ProductOver(_, _)
ProductOver(f, S) ==
    IF S = {} THEN 1
    ELSE LET x == CHOOSE y \in S : TRUE IN f[x] * ProductOver(f, S \ {x})

\* The usage values of all layers over one common denominator, so that values
\* of different layers compare as the floats of the source do.
Scaled(u, l, e) ==
    u[l].num[e] * ProductOver([m \in DOMAIN u |-> u[m].den], (DOMAIN u) \ {l})

\* ------------------------------------------------------ reset_all (304-319)
reset_group_state(n, s) == [l \in LayersFrom(s) |-> [e \in ExpertsOf(n) |-> e]]

reset_similarity_state(n, s) ==
    [l \in LayersFrom(s) |-> [a \in ExpertsOf(n) |-> [b \in ExpertsOf(n) |->
        IF a = b THEN SimOne ELSE 0]]]

reset_usage_state(n, s) ==
    [l \in LayersFrom(s) |-> [num |-> [e \in ExpertsOf(n) |-> 0], den |-> 1]]

\* ------------------------------ _assign_num_groups_per_layer (360-407)
\* sorted_usage_frequency[k] of the pool of all layers' usage values sorted in
\* descending order (k counts from 0): the value v with at most k pool entries
\* above it and more than k entries at or above it.
SortedPoolEntry(u, n, k) ==
    LET cells == (DOMAIN u) \X ExpertsOf(n)
        val(c) == Scaled(u, c[1], c[2])
    IN  CHOOSE v \in {val(c) : c \in cells} :
            /\ Cardinality({c \in cells : val(c) > v}) <= k
            /\ Cardinality({c \in cells : val(c) >= v}) > k

\* torch.sum((usage_frequency_dict[ffn_name] >= frequency_threshold).long())
CountAtOrAbove(u, n, l, threshold) ==
    Cardinality({e \in ExpertsOf(n) : Scaled(u, l, e) >= threshold})

TotalNumGroups(u, n, avg, merging_layers) ==
    LET num_grouping_layers == Cardinality(merging_layers)
        total == avg * num_grouping_layers
                 + n * (Cardinality(DOMAIN u) - num_grouping_layers)
    IN  IF avg = n THEN total - 1 ELSE total

assign_num_groups_per_layer(u, n, avg, merging_layers) ==
    LET frequency_threshold ==
            SortedPoolEntry(u, n, TotalNumGroups(u, n, avg, merging_layers))
    IN  [l \in DOMAIN u |-> CountAtOrAbove(u, n, l, frequency_threshold)]

\* ------------------------------------------ get_similarity_matrix (337-338)
\* deepcopy: the caller gets its own matrix, so what the caller writes into it
\* (the sentinel) leaves the stored matrix as it was.
\* A mutation of StoredAfterMark: the caller writes into the stored matrix
MarkedInPlace(stored, l, a, b) ==
    [stored EXCEPT ![l][a][b] = Sentinel, ![l][b][a] = Sentinel]

StoredAfterMark(stored, l, a, b) == stored

get_similarity_matrix(l) == similarity_state[l]

\* ---------------------------------------------------------------- Init
\* The grouper after construction and after compute_all_usages and
\* compute_all_similarities have filled its usage and similarity state, at the
\* call of a dominant-anchored grouping function:
\*   "global"      group_experts_globally_from_dominant_experts (1017-1108)
\*   "all_in_one"  the grouping step of all_in_one_knowledge_dominant (1660-1712)
NoLocals ==
    /\ core_expert_indices = <<>>
    /\ group_member_count = <<>>
    /\ group_dict = <<>>
    /\ similarity_matrix = NoMatrix
    /\ most_similar_core = -1
    /\ most_similar_group_label = -1
    /\ unsimilar_idx = -1

\* The pipeline stages a specification leaves out stay as they are
NoUsagePass == batch_idx = 0

NoSimilarityPass ==
    /\ similarity_fn = "cosine"
    /\ features = <<>>
    /\ similarity_base = "router-logits"

NoMerge ==
    /\ experts_weights = <<>>
    /\ experts = <<>>
    /\ merge_args = <<>>
    /\ weights_before = <<>>

NoHooks == stage = "none" /\ hooks = {} /\ handles = <<>>

NoModes == mode = "frequency" /\ usage_alone = <<>>

NoDominant == dominant_index = 0 /\ dom_act = <<>> /\ group_indexes = <<>>

NoDistill == kd_labels = <<>> /\ model_layers = <<>>

NoPartition ==
    partition = 1 /\ layer_list = <<>> /\ cur_indices = <<>> /\ merge_log = <<>>

NoStrategy == knowledge_weight = <<>> /\ NoDominant /\ NoDistill /\ NoPartition

NoZip ==
    /\ d_ff = 0
    /\ ingredient = "act"
    /\ ffn_list = <<>>
    /\ ffn_all = <<>>
    /\ corr_matrix = <<>>
    /\ permutation_matrix = <<>>
    /\ average_coefs = <<>>

Init ==
    \E n \in TopK .. MaxExperts, s \in 0 .. NumHiddenLayers - 1,
       en \in {"global", "all_in_one"} :
        /\ n * (NumHiddenLayers - s) <= MaxPool
        /\ num_experts = n
        /\ start_layer = s
        /\ entry = en
        /\ group_limit \in 1 .. n
        /\ num_average_groups \in 1 .. n
        /\ IF en = "global"
           THEN usage \in {[l \in LayersFrom(s) |-> [num |-> f[l], den |-> 1]] :
                            f \in [LayersFrom(s) -> [ExpertsOf(n) -> 0 .. MaxUsage]]}
           ELSE usage = reset_usage_state(n, s)
        /\ similarity_state \in
               {[l \in LayersFrom(s) |-> MatrixOf(p[l], n)] :
                   p \in [LayersFrom(s) -> [PairsOf(n) -> SimValues]]}
        /\ group_state = reset_group_state(n, s)
        /\ pc = "start"
        /\ layer_idx = s
        /\ i = 0
        /\ num_groups_per_layer = <<>>
        /\ NoLocals
        /\ dom_experts = <<>>
        /\ error = NoError
        /\ runs = 0
        /\ prev_result = <<>>
        /\ NoUsagePass
        /\ NoSimilarityPass
        /\ NoMerge
        /\ NoZip
        /\ NoHooks
        /\ NoModes
        /\ NoStrategy

\* ------------------------------------------------------------- actions
UNCHANGED_config ==
    UNCHANGED <<num_experts, start_layer, group_limit, num_average_groups, entry,
                usage, batch_idx, similarity_fn, similarity_base, features, experts_weights, experts,
                merge_args, weights_before, zip_vars, hook_vars, mode_vars, strategy_vars>>

ClearLocals ==
    /\ core_expert_indices' = <<>>
    /\ group_member_count' = <<>>
    /\ group_dict' = <<>>
    /\ similarity_matrix' = NoMatrix
    /\ most_similar_core' = -1
    /\ most_similar_group_label' = -1
    /\ unsimilar_idx' = -1

\* The call: 1039-1046 (global), where the group counts come from
\* _assign_num_groups_per_layer with merging_layers = all eligible layers as the
\* driver passes them (merging-qwen.py 244-246); all_in_one_knowledge_dominant
\* takes num_groups for every layer from its argument.
Call ==
    /\ pc = "start"
    /\ runs < MaxRuns
    /\ runs' = runs + 1
    /\ num_groups_per_layer' =
           IF entry = "global"
           THEN assign_num_groups_per_layer(usage, num_experts, num_average_groups,
                                            sparse_layer_indices)
           ELSE [l \in sparse_layer_indices |-> num_average_groups]
    /\ dom_experts' = <<>>
    /\ layer_idx' = start_layer
    /\ pc' = "layer"
    /\ UNCHANGED <<similarity_state, group_state, i, core_expert_indices,
                   group_member_count, group_dict, similarity_matrix,
                   most_similar_core, most_similar_group_label, unsimilar_idx, error, prev_result>>
    /\ UNCHANGED_config

\* The cores of a layer keep label k for the k-th core: 1060-1063 / 1667-1670
LabelCores(labels, sorted, G) ==
    [e \in DOMAIN labels |->
        IF \E k \in 1 .. G : sorted[k] = e
        THEN (CHOOSE k \in 1 .. G : sorted[k] = e) - 1
        ELSE labels[e]]

CountFromLabels(num_groups) ==
    [g \in 0 .. num_groups - 1 |->
        Cardinality({e \in Experts : group_state[layer_idx][e] = g})]

\* group_member_count = torch.zeros(num_groups)      (1053 / 1662)
torch_zeros(num_groups) == [g \in 0 .. num_groups - 1 |-> 0]

\* The head of the per-layer loop body: 1051-1065 (global), 1661-1671
\* (all_in_one, where the ranking signal is the knowledge score the layer's pass
\* has just computed).
BeginLayer(signal) ==
    LET G == num_groups_per_layer[layer_idx]
        indices_sorted == ArgsortDescending(signal, num_experts)
        cores == Prefix(indices_sorted, G)
    IN  /\ core_expert_indices' = cores
        /\ dom_experts' = [l \in (DOMAIN dom_experts) \cup {layer_idx} |->
                              IF l = layer_idx THEN cores ELSE dom_experts[l]]
        /\ group_state' = [group_state EXCEPT
                              ![layer_idx] = LabelCores(@, indices_sorted, G)]
        /\ group_member_count' = [g \in 0 .. G - 1 |-> torch_zeros(G)[g] + 1]
        /\ group_dict' = [g \in 0 .. G - 1 |-> <<cores[g + 1]>>]
        /\ similarity_matrix' = get_similarity_matrix(layer_idx)
        /\ most_similar_core' = -1
        /\ most_similar_group_label' = -1
        /\ unsimilar_idx' = -1
        /\ i' = 0
        /\ pc' = "assign"

Layer ==
    /\ pc = "layer"
    /\ IF entry = "global"
       THEN BeginLayer(usage[layer_idx].num)
       ELSE \E moe_scores \in [Experts -> 0 .. MaxUsage] : BeginLayer(moe_scores)
    /\ UNCHANGED <<similarity_state, num_groups_per_layer, layer_idx, error, runs,
                   prev_result>>
    /\ UNCHANGED_config

\* similarity_matrix[e, core_expert_indices]
RowOverCores(matrix, e, cores) == [k \in 1 .. Len(cores) |-> matrix[e][cores[k]]]

\* similarity_matrix[core, group_dict[label]]
RowOverMembers(matrix, core, members) ==
    [k \in 1 .. Len(members) |-> matrix[core][members[k]]]

SkipNothing(e, cores) == FALSE

\* if i in core_expert_indices: continue      (1069-1070 / 1673-1674)
IsCore(e, cores) == e \in Range(cores)

TooSmallBelowAllButOne(cores) == Len(cores) = 1 /\ group_limit < num_experts - 1

\* 1080-1084 / 1683-1687: the fatal error of a single core with a limit below
\* the number of experts
TooSmall(cores) == Len(cores) = 1 /\ group_limit < num_experts

\* group_member_count[label] > self.group_limit   (1080, 1085 / 1683, 1689)
OverLimitPlusOne(count, label) == count[label] > group_limit + 1

OverLimit(count, label) == count[label] > group_limit

\* One pass of "for i in range(0, self.num_experts)" up to the while loop:
\* 1068-1084 / 1672-1687.
AssignExpert ==
    /\ pc = "assign"
    /\ i < num_experts
    /\ IF IsCore(i, core_expert_indices)
       THEN /\ i' = i + 1
            /\ UNCHANGED <<pc, error, group_state, group_member_count, group_dict,
                           most_similar_core, most_similar_group_label>>
       ELSE IF Len(core_expert_indices) = 0
       THEN \* torch.argmax of an empty tensor raises
            /\ pc' = "error"
            /\ error' = [kind |-> "argmax of empty tensor", layer |-> layer_idx]
            /\ UNCHANGED <<i, group_state, group_member_count, group_dict,
                           most_similar_core, most_similar_group_label>>
       ELSE LET core == core_expert_indices[
                            ArgmaxPos(RowOverCores(similarity_matrix, i,
                                                   core_expert_indices))]
                label == group_state[layer_idx][core]
                count == [group_member_count EXCEPT ![label] = @ + 1]
            IN  /\ most_similar_core' = core
                /\ most_similar_group_label' = label
                /\ group_state' = [group_state EXCEPT ![layer_idx][i] = label]
                /\ group_member_count' = count
                /\ group_dict' = [group_dict EXCEPT ![label] = Append(@, i)]
                /\ IF OverLimit(count, label)
                   THEN IF TooSmall(core_expert_indices)
                        THEN /\ pc' = "error"
                             /\ error' = [kind |-> "too small", layer |-> layer_idx]
                             /\ i' = i
                        ELSE /\ pc' = "evict"
                             /\ error' = error
                             /\ i' = i
                   ELSE /\ pc' = pc
                        /\ error' = error
                        /\ i' = i + 1
    /\ UNCHANGED <<similarity_state, num_groups_per_layer, layer_idx,
                   core_expert_indices, similarity_matrix, unsimilar_idx,
                   dom_experts, runs, prev_result>>
    /\ UNCHANGED_config

\* The group whose counter the eviction decrements.  1094 decrements the counter
\* of the group that overflowed; 1699 decrements
\* group_member_count[self._group_state_dict[moe_name][i]], the group expert i is
\* in at that moment.
DecrementedGroup(label) ==
    IF entry = "global" THEN label ELSE group_state[layer_idx][i]

\* A mutation of UnsimilarPos: the argmin as it is
PlainArgmin(sim) == ArgminPos(sim) - 1

\* if (unsimilar_pos == 0): unsimilar_pos = 1      (positions count from 0)
UnsimilarPos(sim) ==
    LET unsimilar_pos == ArgminPos(sim) - 1
    IN  IF unsimilar_pos = 0 THEN 1 ELSE unsimilar_pos

\* The first half of a pass of the while loop, 1085-1098 / 1689-1702: the
\* least similar member leaves the group that is over the limit.  The counters
\* are followed up to MaxDrift in either direction.
Evict ==
    /\ pc = "evict"
    /\ OverLimit(group_member_count, most_similar_group_label)
    /\ \A g \in DOMAIN group_member_count :
           group_member_count[g] \in -MaxDrift .. MaxDrift
    /\ LET label == most_similar_group_label
           members == group_dict[label]
           sim == RowOverMembers(similarity_matrix, most_similar_core, members)
           unsimilar_pos == UnsimilarPos(sim)
       IN  IF unsimilar_pos >= Len(members)
           THEN \* group_dict[...][1] of a one-element list
                /\ pc' = "error"
                /\ error' = [kind |-> "list index out of range", layer |-> layer_idx]
                /\ UNCHANGED <<unsimilar_idx, group_member_count, group_dict,
                               similarity_matrix, similarity_state>>
           ELSE LET victim == members[unsimilar_pos + 1]
                IN  /\ unsimilar_idx' = victim
                    /\ group_member_count' =
                           [group_member_count EXCEPT
                               ![DecrementedGroup(label)] = @ - 1]
                    /\ group_dict' = [group_dict EXCEPT
                                         ![label] = RemoveFirst(@, victim)]
                    /\ similarity_matrix' =
                           [similarity_matrix EXCEPT
                               ![victim][most_similar_core] = Sentinel,
                               ![most_similar_core][victim] = Sentinel]
                    /\ similarity_state' =
                           StoredAfterMark(similarity_state, layer_idx, victim,
                                           most_similar_core)
                    /\ pc' = "reassign"
                    /\ error' = error
    /\ UNCHANGED <<i, group_state, most_similar_core, most_similar_group_label,
                   num_groups_per_layer, layer_idx, core_expert_indices,
                   dom_experts, runs, prev_result>>
    /\ UNCHANGED_config

\* The second half, 1099-1107 / 1703-1711: the evicted expert joins the group of
\* the core it is now most similar to, and the while condition is tested on
\* that group.
Reassign ==
    /\ pc = "reassign"
    /\ LET core == core_expert_indices[
                       ArgmaxPos(RowOverCores(similarity_matrix, unsimilar_idx,
                                              core_expert_indices))]
           label == group_state[layer_idx][core]
           count == [group_member_count EXCEPT ![label] = @ + 1]
       IN  /\ most_similar_core' = core
           /\ most_similar_group_label' = label
           /\ group_state' = [group_state EXCEPT ![layer_idx][unsimilar_idx] = label]
           /\ group_member_count' = count
           /\ group_dict' = [group_dict EXCEPT ![label] = Append(@, unsimilar_idx)]
           /\ IF OverLimit(count, label)
              THEN pc' = "evict" /\ i' = i
              ELSE pc' = "assign" /\ i' = i + 1
    /\ UNCHANGED <<unsimilar_idx, similarity_matrix, similarity_state, error,
                   num_groups_per_layer, layer_idx, core_expert_indices,
                   dom_experts, runs, prev_result>>
    /\ UNCHANGED_config

\* The end of a layer's loop body: the next layer, or "return dom_experts".
EndLayer ==
    /\ pc = "assign"
    /\ i = num_experts
    /\ IF layer_idx < NumHiddenLayers - 1
       THEN layer_idx' = layer_idx + 1 /\ pc' = "layer"
       ELSE layer_idx' = layer_idx /\ pc' = "done"
    /\ i' = 0
    /\ ClearLocals
    /\ UNCHANGED <<similarity_state, group_state, num_groups_per_layer,
                   dom_experts, error, runs, prev_result>>
    /\ UNCHANGED_config

\* A second call of group_experts_globally_from_dominant_experts on the same
\* grouper, with the usage and similarity state as they are.
CallAgain ==
    /\ pc = "done"
    /\ entry = "global"
    /\ runs < MaxRuns
    /\ prev_result' = [labels |-> group_state, cores |-> dom_experts]
    /\ pc' = "start"
    /\ UNCHANGED <<similarity_state, group_state, layer_idx, i,
                   num_groups_per_layer, core_expert_indices, group_member_count,
                   group_dict, similarity_matrix, most_similar_core,
                   most_similar_group_label, unsimilar_idx, dom_experts, error, runs>>
    /\ UNCHANGED_config

Next == Call \/ Layer \/ AssignExpert \/ Evict \/ Reassign \/ EndLayer \/ CallAgain

Spec == Init /\ [][Next]_vars

\* The loops of the function run to their end: the interpreter keeps executing
\* the next statement as long as there is one.
FairSpec == Spec /\ WF_vars(Next)

\* ------------------------------------------------------------------------
\* The grouping step of all_in_one_knowledge_dominant (1660-1712) on one layer
\* of MaxChainExperts experts, enough for an eviction whose evicted expert
\* overfills the group it moves to.
InitAllInOne ==
    /\ num_experts = MaxChainExperts
    /\ start_layer = NumHiddenLayers - 1
    /\ entry = "all_in_one"
    /\ group_limit \in TopK .. MaxChainLimit
    /\ num_average_groups \in TopK .. MaxChainLimit
    /\ usage = reset_usage_state(MaxChainExperts, NumHiddenLayers - 1)
    /\ similarity_state \in
           {[l \in LayersFrom(NumHiddenLayers - 1) |-> MatrixOf(p, MaxChainExperts)] :
               p \in [PairsOf(MaxChainExperts) -> SimValues]}
    /\ group_state = reset_group_state(MaxChainExperts, NumHiddenLayers - 1)
    /\ pc = "start"
    /\ layer_idx = NumHiddenLayers - 1
    /\ i = 0
    /\ num_groups_per_layer = <<>>
    /\ NoLocals
    /\ dom_experts = <<>>
    /\ error = NoError
    /\ runs = 0
    /\ prev_result = <<>>
    /\ NoUsagePass
    /\ NoSimilarityPass
    /\ NoMerge
    /\ NoZip
    /\ NoHooks
    /\ NoModes
    /\ NoStrategy

\* One call of a grouping function
NextOnce == Call \/ Layer \/ AssignExpert \/ Evict \/ Reassign \/ EndLayer

SpecAllInOne == InitAllInOne /\ [][NextOnce]_vars

\* ------------------------------------------------------------------------
\* The dominant-anchored grouping on the similarity matrices the "mse"
\* similarity function leaves (line 30): 1 / (1 + 0.1 * log(s)) of a summed
\* squared error s is 1.0 for s = 1, 1.25 for s = e^-2 and 1.5 for s = e^-10/3,
\* next to the diagonal's 1.0 of torch.eye.
MseSimValues == {SimOne, (5 * SimOne) \div 4, (3 * SimOne) \div 2}

InitMse ==
    \E en \in {"global", "all_in_one"} :
        /\ num_experts = MaxExperts
        /\ start_layer = NumHiddenLayers - 1
        /\ entry = en
        /\ group_limit \in 1 .. MaxExperts
        /\ num_average_groups \in 1 .. MaxExperts
        /\ IF en = "global"
           THEN usage \in {[l \in LayersFrom(NumHiddenLayers - 1) |->
                               [num |-> f, den |-> 1]] :
                            f \in [ExpertsOf(MaxExperts) -> 0 .. MaxUsage]}
           ELSE usage = reset_usage_state(MaxExperts, NumHiddenLayers - 1)
        /\ similarity_state \in
               {[l \in LayersFrom(NumHiddenLayers - 1) |-> MatrixOf(p, MaxExperts)] :
                   p \in [PairsOf(MaxExperts) -> MseSimValues]}
        /\ group_state = reset_group_state(MaxExperts, NumHiddenLayers - 1)
        /\ pc = "start"
        /\ layer_idx = NumHiddenLayers - 1
        /\ i = 0
        /\ num_groups_per_layer = <<>>
        /\ NoLocals
        /\ dom_experts = <<>>
        /\ error = NoError
        /\ runs = 0
        /\ prev_result = <<>>
        /\ NoUsagePass
        /\ similarity_fn = "mse"
        /\ features = <<>>
        /\ similarity_base = "router-logits"
        /\ NoMerge
        /\ NoZip
        /\ NoHooks
        /\ NoModes
        /\ NoStrategy

SpecMse == InitMse /\ [][NextOnce]_vars

\* ------------------------------------------------------------------------
\* group_experts_layerwise_by_freq (1111-1130), called with num_groups =
\* num_average_groups on a grouper whose usage and similarity state are filled.
InitLayerwise ==
    \E n \in TopK .. MaxExperts, s \in 0 .. NumHiddenLayers - 1 :
        /\ n * (NumHiddenLayers - s) <= MaxPool
        /\ num_experts = n
        /\ start_layer = s
        /\ entry = "layerwise"
        /\ group_limit = n
        /\ num_average_groups \in 1 .. n
        /\ usage \in {[l \in LayersFrom(s) |-> [num |-> f[l], den |-> 1]] :
                         f \in [LayersFrom(s) -> [ExpertsOf(n) -> 0 .. MaxUsage]]}
        /\ similarity_state \in
               {[l \in LayersFrom(s) |-> MatrixOf(p[l], n)] :
                   p \in [LayersFrom(s) -> [PairsOf(n) -> SimValues]]}
        /\ group_state = reset_group_state(n, s)
        /\ pc = "layer"
        /\ layer_idx = s
        /\ i = 0
        /\ num_groups_per_layer = <<>>
        /\ NoLocals
        /\ dom_experts = <<>>
        /\ error = NoError
        /\ runs = 0
        /\ prev_result = <<>>
        /\ NoUsagePass
        /\ NoSimilarityPass
        /\ NoMerge
        /\ NoZip
        /\ NoHooks
        /\ NoModes
        /\ NoStrategy

UNCHANGED_layerwise ==
    UNCHANGED <<similarity_state, num_groups_per_layer, group_member_count,
                group_dict, most_similar_group_label, unsimilar_idx, error, runs,
                prev_result>>

\* 1118-1123: the first num_groups experts by usage get labels 0..num_groups-1
LayerwiseCores ==
    /\ pc = "layer"
    /\ LET indices_sorted_by_usage ==
               ArgsortDescending(usage[layer_idx].num, num_experts)
           cores == Prefix(indices_sorted_by_usage, num_average_groups)
       IN  /\ core_expert_indices' = cores
           /\ dom_experts' = [l \in (DOMAIN dom_experts) \cup {layer_idx} |->
                                 IF l = layer_idx THEN cores ELSE dom_experts[l]]
           /\ group_state' =
                  [group_state EXCEPT
                      ![layer_idx] = LabelCores(@, indices_sorted_by_usage,
                                                num_average_groups)]
    /\ similarity_matrix' = get_similarity_matrix(layer_idx)
    /\ i' = num_average_groups
    /\ pc' = "assign"
    /\ UNCHANGED <<layer_idx, most_similar_core>>
    /\ UNCHANGED_layerwise
    /\ UNCHANGED_config

\* 1124-1129: one pass of "for i in range(num_groups, self.num_experts)"
LayerwiseAssign ==
    /\ pc = "assign"
    /\ i < num_experts
    /\ LET core == core_expert_indices[
                       ArgmaxPos(RowOverCores(similarity_matrix, i,
                                              core_expert_indices))]
       IN  /\ most_similar_core' = core
           /\ group_state' = [group_state EXCEPT
                                 ![layer_idx][i] = group_state[layer_idx][core]]
    /\ i' = i + 1
    /\ UNCHANGED <<pc, layer_idx, core_expert_indices, similarity_matrix,
                   dom_experts>>
    /\ UNCHANGED_layerwise
    /\ UNCHANGED_config

\* The end of a layer's loop body: the next layer, or "return core_experts"
LayerwiseEnd ==
    /\ pc = "assign"
    /\ i = num_experts
    /\ IF layer_idx < NumHiddenLayers - 1
       THEN layer_idx' = layer_idx + 1 /\ pc' = "layer"
       ELSE layer_idx' = layer_idx /\ pc' = "done"
    /\ i' = 0
    /\ core_expert_indices' = <<>>
    /\ similarity_matrix' = NoMatrix
    /\ most_similar_core' = -1
    /\ UNCHANGED <<group_state, dom_experts>>
    /\ UNCHANGED_layerwise
    /\ UNCHANGED_config

NextLayerwise == LayerwiseCores \/ LayerwiseAssign \/ LayerwiseEnd

SpecLayerwise == InitLayerwise /\ [][NextLayerwise]_vars

\* ------------------------------------------------------------------------
\* The group budget alone: _assign_num_groups_per_layer (360-407) on the usage
\* frequencies compute_all_usages leaves (counts over their sum), called with
\* merging_layers = all eligible layers.
RECURSIVE SumOver(_, _)
SumOver(f, S) ==
    IF S = {} THEN 0
    ELSE LET x == CHOOSE y \in S : TRUE IN f[x] + SumOver(f, S \ {x})

GroupingIdle(n, s) ==
    /\ group_state = reset_group_state(n, s)
    /\ layer_idx = s
    /\ i = 0
    /\ num_groups_per_layer = <<>>
    /\ NoLocals
    /\ dom_experts = <<>>
    /\ error = NoError
    /\ runs = 0
    /\ prev_result = <<>>

InitAssign ==
    \E n \in TopK .. MaxExperts, s \in 0 .. NumHiddenLayers - 1 :
        /\ n * (NumHiddenLayers - s) <= MaxAssignPool
        /\ num_experts = n
        /\ start_layer = s
        /\ entry = "assign"
        /\ group_limit = n
        /\ num_average_groups \in 1 .. n
        /\ usage \in {[l \in LayersFrom(s) |->
                          [num |-> f[l], den |-> SumOver(f[l], ExpertsOf(n))]] :
                        f \in [LayersFrom(s) ->
                                 {c \in [ExpertsOf(n) -> 0 .. MaxCount] :
                                     SumOver(c, ExpertsOf(n)) > 0}]}
        /\ similarity_state = reset_similarity_state(n, s)
        /\ pc = "start"
        /\ GroupingIdle(n, s)
        /\ NoUsagePass
        /\ NoSimilarityPass
        /\ NoMerge
        /\ NoZip
        /\ NoHooks
        /\ NoModes
        /\ NoStrategy

AssignNumGroups ==
    /\ pc = "start"
    /\ num_groups_per_layer' =
           assign_num_groups_per_layer(usage, num_experts, num_average_groups,
                                       sparse_layer_indices)
    /\ pc' = "assigned"
    /\ UNCHANGED <<similarity_state, group_state, layer_idx, i, core_expert_indices,
                   group_member_count, group_dict, similarity_matrix,
                   most_similar_core, most_similar_group_label, unsimilar_idx, dom_experts, error,
                   runs, prev_result>>
    /\ UNCHANGED_config

NextAssign == AssignNumGroups

SpecAssign == InitAssign /\ [][NextAssign]_vars

\* The same call on a grouper of MaxExperts experts with every layer eligible,
\* after compute_all_usages in frequency mode over T tokens: in every layer
\* each token counts for TopK different experts, so the counts of a layer sum
\* to TopK * T and none exceeds T.
InitAssignTokens ==
    \E T \in 1 .. MaxAssignTokens :
        /\ num_experts = MaxExperts
        /\ start_layer = 0
        /\ entry = "assign"
        /\ group_limit = MaxExperts
        /\ num_average_groups \in 1 .. MaxExperts
        /\ usage \in {[l \in LayersFrom(0) |-> [num |-> f[l], den |-> TopK * T]] :
                        f \in [LayersFrom(0) ->
                                 {c \in [ExpertsOf(MaxExperts) -> 0 .. MaxCount] :
                                     /\ SumOver(c, ExpertsOf(MaxExperts)) = TopK * T
                                     /\ \A e \in ExpertsOf(MaxExperts) : c[e] <= T}]}
        /\ similarity_state = reset_similarity_state(MaxExperts, 0)
        /\ pc = "start"
        /\ GroupingIdle(MaxExperts, 0)
        /\ NoUsagePass
        /\ NoSimilarityPass
        /\ NoMerge
        /\ NoZip
        /\ NoHooks
        /\ NoModes
        /\ NoStrategy

SpecAssignTokens == InitAssignTokens /\ [][NextAssign]_vars

\* ------------------------------------------------------------------------
\* compute_all_usages in frequency mode (1176-1212), on a grouper as reset_all
\* leaves it, over calibration streams of at least one batch.

\* torch.topk(logits, k)[1] of one token: k experts none of which has a smaller
\* logit than an expert left out; which of several equal logits is taken is up
\* to the kernel.
TopkSets(logits, k) ==
    {S \in SUBSET Experts :
        /\ Cardinality(S) = k
        /\ \A a \in S, b \in Experts \ S : logits[a] >= logits[b]}

\* The router logits of one token in one layer with the experts topk selects
Routings ==
    {r \in [logits : [Experts -> 0 .. MaxLogit], selected : SUBSET Experts] :
        r.selected \in TopkSets(r.logits, TopK)}

\* unique, counts = torch.unique(selected_experts[layer_idx], return_counts=True)
\* as a vector over all experts (an expert not selected counts 0)
UniqueCounts(selected) ==
    [e \in Experts |-> Cardinality({t \in DOMAIN selected : e \in selected[t]})]

\* state[unique] += counts, on a vector num / den                     (1202)
AddCounts(v, counts) ==
    [num |-> [e \in Experts |-> v.num[e] + counts[e] * v.den], den |-> v.den]

NotNormalized(v) == v

\* v / torch.sum(v), on a vector num / den                        (1210-1212)
Normalized(v) == [num |-> v.num, den |-> SumOver(v.num, Experts)]

InitUsage ==
    \E n \in TopK .. MaxExperts, s \in 0 .. NumHiddenLayers - 1 :
        /\ n * (NumHiddenLayers - s) <= MaxPool
        /\ num_experts = n
        /\ start_layer = s
        /\ entry = "usage"
        /\ group_limit = n
        /\ num_average_groups = n
        /\ usage = reset_usage_state(n, s)
        /\ similarity_state = reset_similarity_state(n, s)
        /\ pc = "idle"
        /\ GroupingIdle(n, s)
        /\ NoUsagePass
        /\ NoSimilarityPass
        /\ NoMerge
        /\ NoZip
        /\ NoHooks
        /\ NoModes
        /\ NoStrategy

UNCHANGED_grouping ==
    UNCHANGED <<similarity_state, group_state, layer_idx, i, num_groups_per_layer,
                core_expert_indices, group_member_count, group_dict,
                similarity_matrix, most_similar_core, most_similar_group_label, unsimilar_idx,
                dom_experts, error, prev_result>>

\* The call, up to the first batch of the dataloader
ComputeAllUsages ==
    /\ pc = "idle"
    /\ runs < MaxRuns
    /\ runs' = runs + 1
    /\ batch_idx' = 0
    /\ pc' = "batches"
    /\ UNCHANGED <<num_experts, start_layer, group_limit, num_average_groups, entry,
                   usage, similarity_fn, similarity_base, features, experts_weights, experts,
                   merge_args, zip_vars, hook_vars, mode_vars, strategy_vars,
                   weights_before>>
    /\ UNCHANGED_grouping

\* One batch: 1186-1202
UsageBatch ==
    /\ pc = "batches"
    /\ batch_idx < MaxBatches
    /\ \E num_tokens \in 1 .. MaxTokens :
       \E routed \in [sparse_layer_indices -> [1 .. num_tokens -> Routings]] :
           LET selected_experts ==
                   [l \in sparse_layer_indices |->
                       [t \in 1 .. num_tokens |-> routed[l][t].selected]]
           IN  usage' = [l \in sparse_layer_indices |->
                            AddCounts(usage[l], UniqueCounts(selected_experts[l]))]
    /\ batch_idx' = batch_idx + 1
    /\ UNCHANGED <<num_experts, start_layer, group_limit, num_average_groups, entry,
                   similarity_fn, similarity_base, features, experts_weights, experts,
                   merge_args, zip_vars, hook_vars, mode_vars, strategy_vars,
                   weights_before, pc, runs>>
    /\ UNCHANGED_grouping

\* The dataloader is exhausted: 1209-1212
UsageNormalize ==
    /\ pc = "batches"
    /\ batch_idx >= 1
    /\ usage' = [l \in sparse_layer_indices |-> Normalized(usage[l])]
    /\ pc' = "idle"
    /\ UNCHANGED <<num_experts, start_layer, group_limit, num_average_groups, entry,
                   batch_idx, similarity_fn, similarity_base, features, experts_weights, experts,
                   merge_args, zip_vars, hook_vars, mode_vars, strategy_vars,
                   weights_before, runs>>
    /\ UNCHANGED_grouping

NextUsage == ComputeAllUsages \/ UsageBatch \/ UsageNormalize

SpecUsage == InitUsage /\ [][NextUsage]_vars

\* ------------------------------------------------------------------------
\* compute_all_usages in both modes (1176-1212) on one eligible layer, called
\* up to MaxRuns times on the same grouper as the driver does
\* (merging-qwen.py 226-252).  usage_alone follows a freshly constructed
\* grouper that is given the stream of the running call only.

\* F.softmax(all_router_logits[layer_idx], dim=1) of one token, in units of
\* 1 / ProbGrid: the experts' probabilities sum to 1
ProbVectors ==
    {p \in [Experts -> 0 .. ProbGrid] : SumOver(p, Experts) = ProbGrid}

\* state += router_score.float().sum(0) / router_score.shape[0], on a vector
\* num / den                                                     (1205-1208)
AddScores(v, router_score) ==
    LET num_tokens == Len(router_score)
        sum0 == [e \in Experts |->
                    SumOver([t \in 1 .. num_tokens |-> router_score[t][e]],
                            1 .. num_tokens)]
    IN  [num |-> [e \in Experts |->
                     v.num[e] * ProbGrid * num_tokens + sum0[e] * v.den],
         den |-> v.den * ProbGrid * num_tokens]

InitModes ==
    /\ num_experts = MaxModeExperts
    /\ start_layer = NumHiddenLayers - 1
    /\ entry = "modes"
    /\ group_limit = MaxModeExperts
    /\ num_average_groups = MaxModeExperts
    /\ usage = reset_usage_state(MaxModeExperts, NumHiddenLayers - 1)
    /\ similarity_state = reset_similarity_state(MaxModeExperts, NumHiddenLayers - 1)
    /\ pc = "idle"
    /\ GroupingIdle(MaxModeExperts, NumHiddenLayers - 1)
    /\ NoUsagePass
    /\ NoSimilarityPass
    /\ NoMerge
    /\ NoZip
    /\ NoHooks
    /\ mode = "frequency"
    /\ usage_alone = reset_usage_state(MaxModeExperts, NumHiddenLayers - 1)
    /\ NoStrategy

UNCHANGED_but_usage ==
    /\ UNCHANGED <<num_experts, start_layer, group_limit, num_average_groups, entry,
                   similarity_fn, similarity_base, features, experts_weights,
                   experts, merge_args, weights_before, zip_vars, hook_vars,
                   strategy_vars>>
    /\ UNCHANGED_grouping

\* The call, up to the first batch of the dataloader
CallInMode ==
    /\ pc = "idle"
    /\ runs < MaxRuns
    /\ runs' = runs + 1
    /\ mode' \in {"frequency", "routing-score"}
    /\ batch_idx' = 0
    /\ usage_alone' = reset_usage_state(num_experts, start_layer)
    /\ pc' = "batches"
    /\ UNCHANGED usage
    /\ UNCHANGED_but_usage

\* One batch: 1186-1208
ModeBatch ==
    /\ pc = "batches"
    /\ batch_idx < MaxBatches
    /\ \E num_tokens \in 1 .. MaxTokens :
          IF mode = "frequency"
          THEN \E routed \in [sparse_layer_indices -> [1 .. num_tokens -> Routings]] :
                   LET counts(l) ==
                           UniqueCounts([t \in 1 .. num_tokens |->
                                            routed[l][t].selected])
                   IN  /\ usage' = [l \in sparse_layer_indices |->
                                        AddCounts(usage[l], counts(l))]
                       /\ usage_alone' = [l \in sparse_layer_indices |->
                                              AddCounts(usage_alone[l], counts(l))]
          ELSE \E router_score \in
                      [sparse_layer_indices -> [1 .. num_tokens -> ProbVectors]] :
                   /\ usage' = [l \in sparse_layer_indices |->
                                    AddScores(usage[l], router_score[l])]
                   /\ usage_alone' = [l \in sparse_layer_indices |->
                                          AddScores(usage_alone[l], router_score[l])]
    /\ batch_idx' = batch_idx + 1
    /\ UNCHANGED <<pc, runs, mode>>
    /\ UNCHANGED_but_usage

\* The dataloader is exhausted: 1209-1212
ModeEnd ==
    /\ pc = "batches"
    /\ batch_idx >= 1
    /\ IF mode = "frequency"
       THEN /\ usage' = [l \in sparse_layer_indices |-> Normalized(usage[l])]
            /\ usage_alone' =
                   [l \in sparse_layer_indices |-> Normalized(usage_alone[l])]
       ELSE UNCHANGED <<usage, usage_alone>>
    /\ pc' = "idle"
    /\ UNCHANGED <<batch_idx, runs, mode>>
    /\ UNCHANGED_but_usage

NextModes == CallInMode \/ ModeBatch \/ ModeEnd

SpecModes == InitModes /\ [][NextModes]_vars

\* ------------------------------------------------------------------------
\* compute_all_similarities (1216-1239) for the bases that hand two per-expert
\* vectors to self.similarity_fn: weight (1245-1263), router-weight
\* (1265-1273), router-logits (1275-1300) and expert-output with the cosine
\* overlap metric (1353-1379).  features[l][e] is the vector of expert e in
\* layer l, with components in units of 1 / FeatureGrid.
FeatureVectors == [1 .. FeatureDim -> -1 .. MaxFeature]

Dot(x, y) == SumOver([k \in 1 .. FeatureDim |-> x[k] * y[k]], 1 .. FeatureDim)

\* F.mse_loss(x, y, reduction="sum"), in units of 1 / FeatureGrid^2
SquaredErrorSum(x, y) ==
    SumOver([k \in 1 .. FeatureDim |-> (x[k] - y[k]) * (x[k] - y[k])],
            1 .. FeatureDim)

Isqrt(n) == CHOOSE r \in 0 .. SimOne : r * r <= n /\ n < (r + 1) * (r + 1)

\* 100 * ln(k), rounded, for k = 1 .. 16
LogTable == <<0, 69, 110, 139, 161, 179, 195, 208, 220, 230, 240, 248, 256, 264,
              271, 277>>

\* torch.log of numer / denom, in hundredths
LogHundredths(numer, denom) == LogTable[numer] - LogTable[denom]

\* "cosine": (F.cosine_similarity(x, y, eps=FP32_EPS) + 1) / 2, in hundredths.
\* A vector of norm 0 has its norm raised to eps, which leaves the cosine 0.
CosineSimilarity(x, y) ==
    LET d == Dot(x, y)
        nn == Dot(x, x) * Dot(y, y)
        magnitude == IF nn = 0 THEN 0 ELSE Isqrt((SimOne * SimOne * d * d) \div nn)
        cosine == IF d < 0 THEN 0 - magnitude ELSE magnitude
    IN  (cosine + SimOne) \div 2

\* "mse": 1 / (1 + 0.1 * torch.log(F.mse_loss(x, y, reduction="sum"))), in
\* hundredths.  log(0) is -inf, and 1 / -inf is (negative) zero.
MseSimilarity(x, y) ==
    LET mse == SquaredErrorSum(x, y)
        log10 == LogHundredths(mse, FeatureGrid * FeatureGrid)
    IN  IF mse = 0 THEN 0
        ELSE (SimOne * 10 * SimOne) \div (10 * SimOne + log10)

\* SIMILARITY_MAPPING_FUNCTION (28-31)
SIMILARITY_MAPPING_FUNCTION(fn, x, y) ==
    IF fn = "cosine" THEN CosineSimilarity(x, y) ELSE MseSimilarity(x, y)

\* save_similarity (330-332) for every pair i < j of a layer, as the loops
\* "for i in range(N): for j in range(i + 1, N)" call it: [i, j] and [j, i] get
\* the value, the diagonal stays what it was.
SimilaritiesOfLayer(matrix, fn, vectors) ==
    [a \in DOMAIN matrix |-> [b \in DOMAIN matrix |->
        IF a = b THEN matrix[a][b]
        ELSE IF a < b THEN SIMILARITY_MAPPING_FUNCTION(fn, vectors[a], vectors[b])
        ELSE SIMILARITY_MAPPING_FUNCTION(fn, vectors[b], vectors[a])]]

\* similarity_list of compute_all_similarities                        (1225)
similarity_list == {"weight", "router-weight", "router-logits", "expert-output"}

\* The bases whose pass iterates over the dataloader (1278, 1340)
NeedsDataloader == {"router-logits", "expert-output"}

InitSim ==
    \E n \in TopK .. MaxExperts, s \in 0 .. NumHiddenLayers - 1 :
        /\ n * (NumHiddenLayers - s) <= MaxPool
        /\ num_experts = n
        /\ start_layer = s
        /\ entry = "similarity"
        /\ group_limit = n
        /\ num_average_groups = n
        /\ usage = reset_usage_state(n, s)
        /\ similarity_state = reset_similarity_state(n, s)
        /\ pc = "idle"
        /\ GroupingIdle(n, s)
        /\ NoUsagePass
        /\ similarity_fn \in {"cosine", "mse"}
        /\ similarity_base \in similarity_list
        /\ features \in [LayersFrom(s) -> [ExpertsOf(n) -> FeatureVectors]]
        /\ NoMerge
        /\ NoZip
        /\ NoHooks
        /\ NoModes
        /\ NoStrategy

\* compute_all_similarities (1216-1239): the check of the arguments, the
\* dispatch on self.similarity_base, and the pass of the basis
ComputeAllSimilarities ==
    /\ pc = "idle"
    /\ \E dataloader \in {"given", "None"} :
           IF similarity_base \notin similarity_list /\ dataloader = "None"
           THEN /\ pc' = "error"
                /\ error' = Raised("ValueError: dataloader should be provided")
                /\ UNCHANGED similarity_state
           ELSE IF similarity_base \notin similarity_list
           THEN /\ pc' = "error"
                /\ error' = Raised("NotImplementedError")
                /\ UNCHANGED similarity_state
           ELSE IF similarity_base \in NeedsDataloader /\ dataloader = "None"
           THEN \* "for batch in tqdm(None)"
                /\ pc' = "error"
                /\ error' = Raised("TypeError: 'NoneType' object is not iterable")
                /\ UNCHANGED similarity_state
           ELSE /\ similarity_state' =
                       [l \in sparse_layer_indices |->
                           SimilaritiesOfLayer(similarity_state[l], similarity_fn,
                                               features[l])]
                /\ pc' = "computed"
                /\ UNCHANGED error
    /\ UNCHANGED <<group_state, layer_idx, i, num_groups_per_layer,
                   core_expert_indices, group_member_count, group_dict,
                   similarity_matrix, most_similar_core, most_similar_group_label,
                   unsimilar_idx, dom_experts, runs, prev_result>>
    /\ UNCHANGED_config

\* reset_all (304-319)
ResetAll ==
    /\ pc = "computed"
    /\ group_state' = reset_group_state(num_experts, start_layer)
    /\ similarity_state' = reset_similarity_state(num_experts, start_layer)
    /\ usage' = reset_usage_state(num_experts, start_layer)
    /\ pc' = "idle"
    /\ UNCHANGED <<num_experts, start_layer, group_limit, num_average_groups, entry,
                   batch_idx, similarity_fn, similarity_base, features, experts_weights, experts,
                   merge_args, zip_vars, hook_vars, mode_vars, strategy_vars,
                   weights_before>>
    /\ UNCHANGED <<layer_idx, i, num_groups_per_layer, core_expert_indices,
                   group_member_count, group_dict, similarity_matrix,
                   most_similar_core, most_similar_group_label, unsimilar_idx, dom_experts, error,
                   runs, prev_result>>

NextSim == ComputeAllSimilarities \/ ResetAll

SpecSim == InitSim /\ [][NextSim]_vars

\* ------------------------------------------------------------------------
\* The merge of one MoE block: _merge_mlp_experts_by_usage_frequency_weighting
\* (2143-2176), called with the grouper's usage frequencies (merge "freq":
\* 1731-1736, 3331-3336), and _merge_moe_experts_within_and_across_models
\* (3062-3290) with dominant_alone = False for merge = "weighted", for merge =
\* "prune" with mode = "zero-output", and for the activation-matching merges
\* ("zipit").  A weight matrix is one number on the grid of the stored dtype;
\* usage frequencies and coefficients are multiples of FP32_EPS.
WeightTriples == [w1 : 1 .. MaxWeight, w2 : 1 .. MaxWeight, w3 : 1 .. MaxWeight]

\* torch.where(group_labels == label)[0]
expert_indices(group_labels, label) ==
    {e \in DOMAIN group_labels : group_labels[e] = label}

\* A quotient stored back into a weight: the nearest value of the grid
RoundDiv(a, b) == (2 * a + b) \div (2 * b)

\* sum(w_e * usage[e]) / (sum(usage[e]) + FP32_EPS) for one weight matrix
WeightedAverage(weights, usage_frequencies, members, matrix) ==
    RoundDiv(SumOver([e \in members |-> weights[e][matrix] * usage_frequencies[e]],
                     members),
             SumOver(usage_frequencies, members) + FP32_EPS)

\* 2143-2176: every group's weighted average goes into its first expert, and
\* the other members are bound to that expert
merge_mlp_experts_by_usage_frequency_weighting(weights, group_labels, frequencies) ==
    [e \in DOMAIN weights |->
        LET members == expert_indices(group_labels, group_labels[e])
        IN  [w1 |-> WeightedAverage(weights, frequencies, members, "w1"),
             w2 |-> WeightedAverage(weights, frequencies, members, "w2"),
             w3 |-> WeightedAverage(weights, frequencies, members, "w3")]]

\* 3075-3082: merging_weight[e] is the first coefficient for a core expert and
\* the second for any other expert
merging_weight(n, coefs, cores) ==
    [e \in ExpertsOf(n) |-> IF e \in Range(cores) THEN coefs[1] ELSE coefs[2]]

\* 3266-3270: w2 of every expert other than core_expert_indices[0] is zeroed
PruneZeroOutput(weights, cores) ==
    [e \in DOMAIN weights |->
        IF e = cores[1] THEN weights[e] ELSE [weights[e] EXCEPT !.w2 = 0]]

\* 3182-3187 and 3271-3278: a group of one expert is passed through; the merged
\* expert of a larger group (merged[label], what the activation matching
\* returns) is copied into its first expert, to which the others are bound
MergeByMatching(weights, group_labels, merged) ==
    [e \in DOMAIN weights |->
        IF Cardinality(expert_indices(group_labels, group_labels[e])) = 1
        THEN weights[e]
        ELSE merged[group_labels[e]]]

\* The lowest index among a set of experts: torch.where lists a group's
\* members in ascending order, so this is expert_indices[0]
FirstOf(members) == CHOOSE e \in members : \A f \in members : e <= f

\* A mutation of BindToFirst: every slot keeps its own module
KeepOwnModule(slots, group_labels) == slots

\* 2172-2174 and 3275-3277: ffn.experts[expert_idx] = ffn.experts[expert_indices[0]]
\* for every expert_idx in expert_indices[1:], label by label
BindToFirst(slots, group_labels) ==
    [e \in DOMAIN slots |->
        slots[FirstOf(expert_indices(group_labels, group_labels[e]))]]

\* 3094-3097: new_moe = deepcopy(moe); the copy of module m is a module the
\* block did not hold
deepcopy(slots) == [e \in DOMAIN slots |-> slots[e] + Cardinality(DOMAIN slots)]

\* Label vectors a grouping leaves: labels 0..G-1, each with a member, and one
\* core per group
Groupings(n) ==
    {g \in [labels : [ExpertsOf(n) -> ExpertsOf(n)],
            cores : UNION {[1 .. k -> ExpertsOf(n)] : k \in 1 .. n}] :
        /\ \A e \in ExpertsOf(n) : g.labels[e] < Len(g.cores)
        /\ \A k \in 1 .. Len(g.cores) : g.labels[g.cores[k]] = k - 1}

\* The merge strings a call is made with: those the callee compares its
\* argument with, and one it does not know
MergeArguments(caller) ==
    IF caller = "driver"
    THEN {"freq", "weighted", "prune", "zipit", "unknown"}
    ELSE {"average", "weighted", "freq", "zipit", "unknown"}

InitMerge ==
    \E n \in TopK .. MaxMergeExperts :
        /\ num_experts = n
        /\ start_layer = NumHiddenLayers - 1
        /\ entry = "merge"
        /\ group_limit = n
        /\ num_average_groups = n
        /\ usage = reset_usage_state(n, NumHiddenLayers - 1)
        /\ similarity_state = reset_similarity_state(n, NumHiddenLayers - 1)
        /\ pc = "premerge"
        /\ GroupingIdle(n, NumHiddenLayers - 1)
        /\ NoUsagePass
        /\ NoSimilarityPass
        /\ experts_weights \in [ExpertsOf(n) -> WeightTriples]
        /\ experts = [e \in ExpertsOf(n) |-> e]
        /\ weights_before = <<>>
        /\ NoZip
        /\ NoHooks
        /\ NoModes
        /\ NoStrategy
        /\ \E g \in Groupings(n), caller \in {"driver", "wrapper"} :
           \E m \in MergeArguments(caller) :
               merge_args \in
                   [merge : {m},
                    caller : {caller},
                    group_labels : {g.labels},
                    core_expert_indices : {g.cores},
                    usage_frequencies :
                        IF m = "freq" \/ (m = "zipit" /\ caller = "driver")
                        THEN [ExpertsOf(n) -> {0, UsageUnit}]
                        ELSE {[e \in ExpertsOf(n) |-> 0]},
                    coefs :
                        IF m = "weighted"
                        THEN [1 .. 2 -> {0, UsageUnit}]
                             \cup (IF caller = "wrapper" THEN {<<>>} ELSE {})
                        ELSE {<<UsageUnit, UsageUnit>>}]

\* The driver's merge step (merging-qwen.py 291-310): merge = "freq" goes to
\* merge_by_groups_with_usage_weighted, every other string to
\* _merge_moe_experts_within_and_across_models, which tests it for "weighted"
\* (3075) and "prune" (3088, 3266) and, for a group of several experts, for
\* "kl-weight", "update", "fix-dom", "fix-dom-same" and "unmerge"; its last
\* branch runs the activation matching for every other string (3231-3252).
Merge ==
    /\ pc = "premerge"
    /\ merge_args.caller = "driver"
    /\ weights_before' = experts_weights
    /\ LET a == merge_args
       IN  \/ /\ a.merge = "freq"
              /\ experts_weights' =
                     merge_mlp_experts_by_usage_frequency_weighting(
                         experts_weights, a.group_labels, a.usage_frequencies)
              /\ experts' = BindToFirst(experts, a.group_labels)
           \/ /\ a.merge = "weighted"
              /\ experts_weights' =
                     merge_mlp_experts_by_usage_frequency_weighting(
                         experts_weights, a.group_labels,
                         merging_weight(num_experts, a.coefs, a.core_expert_indices))
              /\ experts' = BindToFirst(experts, a.group_labels)
           \/ /\ a.merge = "prune"
              /\ experts_weights' =
                     PruneZeroOutput(experts_weights, a.core_expert_indices)
              /\ experts' = deepcopy(experts)
           \/ /\ a.merge \notin {"freq", "weighted", "prune"}
              /\ \E merged \in [{l \in 0 .. Len(a.core_expert_indices) - 1 :
                                    Cardinality(expert_indices(a.group_labels, l)) > 1}
                                  -> WeightTriples] :
                     experts_weights' =
                         MergeByMatching(experts_weights, a.group_labels, merged)
              /\ experts' = BindToFirst(deepcopy(experts), a.group_labels)
    /\ pc' = "merged"
    /\ UNCHANGED <<num_experts, start_layer, group_limit, num_average_groups, entry,
                   usage, batch_idx, similarity_fn, similarity_base, features,
                   merge_args, zip_vars, hook_vars, mode_vars, strategy_vars, runs>>
    /\ UNCHANGED_grouping

\* PrunableMixtralSparseMoeBlockWrapper.merge (model_wrapper.py 163-226)
WrapperMerge ==
    /\ pc = "premerge"
    /\ merge_args.caller = "wrapper"
    /\ weights_before' = experts_weights
    /\ LET a == merge_args
       IN  IF a.merge = "average"
           THEN /\ experts_weights' =
                       merge_mlp_experts_by_usage_frequency_weighting(
                           experts_weights, a.group_labels,
                           [e \in Experts |-> UsageUnit])
                /\ experts' = BindToFirst(experts, a.group_labels)
                /\ pc' = "merged"
                /\ UNCHANGED error
           ELSE IF a.merge = "weighted" /\ a.coefs # <<>>
           THEN /\ experts_weights' =
                       merge_mlp_experts_by_usage_frequency_weighting(
                           experts_weights, a.group_labels,
                           merging_weight(num_experts, a.coefs, a.core_expert_indices))
                /\ experts' = BindToFirst(experts, a.group_labels)
                /\ pc' = "merged"
                /\ UNCHANGED error
           ELSE IF a.merge = "freq"
           THEN /\ experts_weights' =
                       merge_mlp_experts_by_usage_frequency_weighting(
                           experts_weights, a.group_labels, a.usage_frequencies)
                /\ experts' = BindToFirst(experts, a.group_labels)
                /\ pc' = "merged"
                /\ UNCHANGED error
           ELSE IF a.merge \in {"zipit", "fix-dom-same"}
           THEN /\ \E merged \in [{l \in 0 .. Len(a.core_expert_indices) - 1 :
                                      Cardinality(expert_indices(a.group_labels, l)) > 1}
                                    -> WeightTriples] :
                       experts_weights' =
                           MergeByMatching(experts_weights, a.group_labels, merged)
                /\ experts' = BindToFirst(deepcopy(experts), a.group_labels)
                /\ pc' = "merged"
                /\ UNCHANGED error
           ELSE /\ UNCHANGED <<experts_weights, experts>>
                /\ pc' = "error"
                /\ error' = Raised("ValueError: Invalid merge method")
    /\ UNCHANGED <<num_experts, start_layer, group_limit, num_average_groups, entry,
                   usage, batch_idx, similarity_fn, similarity_base, features,
                   merge_args, zip_vars, hook_vars, mode_vars, strategy_vars, runs>>
    /\ UNCHANGED <<similarity_state, group_state, layer_idx, i, num_groups_per_layer,
                   core_expert_indices, group_member_count, group_dict,
                   similarity_matrix, most_similar_core, most_similar_group_label,
                   unsimilar_idx, dom_experts, prev_result>>

NextMerge == Merge \/ WrapperMerge

SpecMerge == InitMerge /\ [][NextMerge]_vars

\* ------------------------------------------------------------------------
\* The greedy zip merge of the experts of one group:
\* _merge_mixtral_moe_by_activation_matching_within_and_across_models
\* (2677-2892) with mode = "normal" and the default coefficients, from the
\* point where the units of all experts are concatenated and their correlation
\* matrix is computed (2747).  A unit is a row of w1 and w3 and a column of w2,
\* one number each, in units of 1 / ZipGrid; correlations are in units of
\* 1 / CorrOne; coefficients are multiples of FP32_EPS.
RECURSIVE Factorial(_)
Factorial(n) == IF n <= 1 THEN 1 ELSE n * Factorial(n - 1)

\* A grid on which the mean of up to MaxUnits weights is a grid value
ZipGrid == Factorial(MaxUnits)

UnitWeights ==
    [w1 : {w * ZipGrid : w \in 0 .. MaxUnitWeight},
     w2 : {w * ZipGrid : w \in 0 .. MaxUnitWeight},
     w3 : {w * ZipGrid : w \in 0 .. MaxUnitWeight}]

\* What compute_covariance (2088-2103) returns for two different units of n: a
\* correlation, strictly between -1 and 1.  The levels are such that every
\* choice of signs is the correlation matrix of some data ((n - 1) * level < 1).
\* With ingredient "act+weight" the matrix is the sum of two (2741-2746).
CorrLevel(n) == (3 * CorrOne) \div (4 * (n - 1))

CorrValues(ing, n) ==
    IF ing = "act+weight" THEN {0 - 2 * CorrLevel(n), 2 * CorrLevel(n)}
    ELSE {0 - CorrLevel(n), CorrLevel(n)}

\* corr_matrix[arange, arange] = -1                                   (2747)
CorrMatrixOf(upper, n) ==
    [a \in 1 .. n |-> [b \in 1 .. n |->
        IF a = b THEN 0 - CorrOne
        ELSE IF a < b THEN upper[<<a - 1, b - 1>>] ELSE upper[<<b - 1, a - 1>>]]]

\* torch.eye(d_ff * num_ffn), column by column, 1.0 being ZipGrid      (2750)
torch_eye(n) == [c \in 1 .. n |-> [r \in 1 .. n |-> IF r = c THEN ZipGrid ELSE 0]]

\* get_coef (2114-2139) with input_weight = None and average_coefs = None
get_coef(n) == [k \in 1 .. n |-> UsageUnit]

InitZip ==
    \E d \in 1 .. MaxDff, num_ffn \in 2 .. MaxFfn :
        /\ d * num_ffn <= MaxUnits
        /\ num_experts = num_ffn
        /\ start_layer = NumHiddenLayers - 1
        /\ entry = "zipit"
        /\ group_limit = num_ffn
        /\ num_average_groups = 1
        /\ usage = reset_usage_state(num_ffn, NumHiddenLayers - 1)
        /\ similarity_state = reset_similarity_state(num_ffn, NumHiddenLayers - 1)
        /\ pc = "greedy"
        /\ GroupingIdle(num_ffn, NumHiddenLayers - 1)
        /\ NoUsagePass
        /\ NoSimilarityPass
        /\ NoMerge
        /\ d_ff = d
        /\ ingredient \in {"act", "weight", "act+weight"}
        /\ ffn_list \in [1 .. d * num_ffn -> UnitWeights]
        /\ ffn_all = ffn_list
        /\ corr_matrix \in {CorrMatrixOf(u, d * num_ffn) :
                               u \in [PairsOf(d * num_ffn) ->
                                        CorrValues(ingredient, d * num_ffn)]}
        /\ permutation_matrix = torch_eye(d * num_ffn)
        /\ average_coefs = get_coef(d * num_ffn)
        /\ NoHooks
        /\ NoModes
        /\ NoStrategy

\* torch.argmax(corr_matrix) with max_index // n and max_index % n: the first
\* maximal entry in row-major order, as a pair of positions counted from 1
ArgmaxFlat(corr) ==
    LET n == Len(corr)
        flat(p) == (p[1] - 1) * n + (p[2] - 1)
    IN  CHOOSE p \in (1 .. n) \X (1 .. n) :
            \A q \in (1 .. n) \X (1 .. n) :
                /\ corr[q[1]][q[2]] <= corr[p[1]][p[2]]
                /\ flat(q) < flat(p) => corr[q[1]][q[2]] < corr[p[1]][p[2]]

\* torch.cat([x[:idx], x[idx + 1:]]), idx counted from 1
RemoveAt(s, idx) == [k \in 1 .. Len(s) - 1 |-> IF k < idx THEN s[k] ELSE s[k + 1]]

Min(a, b) == IF a < b THEN a ELSE b

\* alpha_for_repeated_merging * x, for the default alpha 0.1
Alpha(x) == x \div AlphaInverse

\* One pass of the while loop, 2831-2879
GreedyMerge ==
    /\ entry = "zipit"
    /\ pc = "greedy"
    /\ Len(ffn_all) > d_ff
    /\ \E max_index \in {ArgmaxFlat(corr_matrix)} :
       \E max_i \in {max_index[1]}, max_j \in {max_index[2]} :
       LET i_coef == average_coefs[max_i]
           j_coef == average_coefs[max_j]
           averaged(m) == RoundDiv(i_coef * ffn_all[max_i][m]
                                       + j_coef * ffn_all[max_j][m],
                                   i_coef + j_coef + FP32_EPS)
           updated_corr_vec ==
               [k \in 1 .. Len(corr_matrix) |->
                   Alpha(Min(corr_matrix[max_i][k], corr_matrix[max_j][k]))]
           corr_updated ==
               [a \in 1 .. Len(corr_matrix) |-> [b \in 1 .. Len(corr_matrix) |->
                   IF a = max_i /\ b = max_i THEN 0 - CorrOne
                   ELSE IF b = max_i THEN updated_corr_vec[a]
                   ELSE IF a = max_i THEN updated_corr_vec[b]
                   ELSE corr_matrix[a][b]]]
       IN  /\ ffn_all' =
                  RemoveAt([ffn_all EXCEPT ![max_i] = [w1 |-> averaged("w1"),
                                                       w2 |-> averaged("w2"),
                                                       w3 |-> averaged("w3")]],
                           max_j)
           /\ permutation_matrix' =
                  RemoveAt([permutation_matrix EXCEPT ![max_i] =
                                [r \in DOMAIN @ |-> @[r] + permutation_matrix[max_j][r]]],
                           max_j)
           /\ corr_matrix' =
                  RemoveAt([a \in 1 .. Len(corr_matrix) |->
                                RemoveAt(corr_updated[a], max_j)],
                           max_j)
           /\ average_coefs' =
                  RemoveAt([average_coefs EXCEPT ![max_i] = @ + average_coefs[max_j]],
                           max_j)
    /\ UNCHANGED <<num_experts, start_layer, group_limit, num_average_groups, entry,
                   usage, batch_idx, similarity_fn, similarity_base, features, experts_weights, experts,
                   merge_args, weights_before, d_ff, ingredient, ffn_list, pc, runs,
                   hook_vars, mode_vars, strategy_vars>>
    /\ UNCHANGED_grouping

\* The loop has ended: the permutation matrix is normalised and the merged
\* expert returned, 2880-2892
ZipReturn ==
    /\ entry = "zipit"
    /\ pc = "greedy"
    /\ ~(Len(ffn_all) > d_ff)
    /\ permutation_matrix' =
           [c \in DOMAIN permutation_matrix |->
               LET column == permutation_matrix[c]
                   total == SumOver(column, DOMAIN column)
               IN  [r \in DOMAIN column |-> (column[r] * ZipGrid) \div total]]
    /\ pc' = "zipped"
    /\ UNCHANGED <<num_experts, start_layer, group_limit, num_average_groups, entry,
                   usage, batch_idx, similarity_fn, similarity_base, features, experts_weights, experts,
                   merge_args, weights_before, d_ff, ingredient, ffn_list, ffn_all,
                   corr_matrix, average_coefs, runs, hook_vars, mode_vars, strategy_vars>>
    /\ UNCHANGED_grouping

NextZip == GreedyMerge \/ ZipReturn

SpecZip == InitZip /\ [][NextZip]_vars

\* ------------------------------------------------------------------------
\* _merge_mixtral_moe_by_knowledge_weight (3010-3042) on the experts of one
\* group.  ffn_list lists the units expert by expert as torch.cat does (unit u
\* of expert e at position e * d_ff + u, counted from 0), a unit being a row of
\* w1 and w3 and a column of w2, one number each; knowledge_weight lists the
\* scores in the same order (the tensor's row-major order).  A merged value is
\* a numerator over the product of the column sums, or NaN.  The caller passes
\* groups of two or more experts (3188-3199).
KnowledgeUnits == [w1 : 0 .. MaxUnitWeight, w2 : 0 .. MaxUnitWeight,
                   w3 : 0 .. MaxUnitWeight]

InitKnowledge ==
    \E d \in 1 .. MaxDff, num_ffn \in 2 .. MaxFfn :
        /\ d * num_ffn <= MaxUnits
        /\ num_experts = num_ffn
        /\ start_layer = NumHiddenLayers - 1
        /\ entry = "kl-weight"
        /\ group_limit = num_ffn
        /\ num_average_groups = 1
        /\ usage = reset_usage_state(num_ffn, NumHiddenLayers - 1)
        /\ similarity_state = reset_similarity_state(num_ffn, NumHiddenLayers - 1)
        /\ pc = "premerge"
        /\ GroupingIdle(num_ffn, NumHiddenLayers - 1)
        /\ NoUsagePass
        /\ NoSimilarityPass
        /\ NoMerge
        /\ d_ff = d
        /\ ingredient = "act"
        /\ ffn_list \in [1 .. d * num_ffn -> KnowledgeUnits]
        /\ ffn_all = <<>>
        /\ corr_matrix = <<>>
        /\ permutation_matrix = <<>>
        /\ average_coefs = <<>>
        /\ knowledge_weight \in [1 .. d * num_ffn -> 0 .. MaxKnowledge]
        /\ NoDominant
        /\ NoDistill
        /\ NoPartition
        /\ NoHooks
        /\ NoModes

\* knowledge_weight.sum(dim=0, keepdim=True), unit by unit (units from 0) (3017)
ColSum(kw, d, u) ==
    SumOver([e \in Experts |-> kw[e * d + u + 1]], Experts)

\* The common denominator of the normalised scores
ColSumProduct(kw, d) ==
    ProductOver([u \in 0 .. d - 1 |->
                    IF ColSum(kw, d, u) = 0 THEN 1 ELSE ColSum(kw, d, u)],
                0 .. d - 1)

\* knowledge_weight / col_sum at position r of the flattened tensor   (3018-3019)
Knowledge(kw, d, r) ==
    LET col_sum == ColSum(kw, d, (r - 1) % d)
    IN  IF col_sum = 0
        THEN [nan |-> TRUE, num |-> 0]
        ELSE [nan |-> FALSE, num |-> kw[r] * (ColSumProduct(kw, d) \div col_sum)]

\* The sum of knowledge * weight over a set of positions of the concatenation
ScaledSum(kw, weights, d, positions, matrix) ==
    [nan |-> \E r \in positions : Knowledge(kw, d, r).nan,
     num |-> SumOver([r \in positions |->
                         Knowledge(kw, d, r).num * weights[r][matrix]],
                     positions)]

\* ffn_all_w1.reshape(d_ff, num_ffn, d_model).sum(dim=1): row a of the result
\* is the sum of rows a * num_ffn .. a * num_ffn + num_ffn - 1 of the scaled
\* concatenation                                                   (3030-3034)
RowsOfReshape(a, num_ffn) == {a * num_ffn + b + 1 : b \in 0 .. num_ffn - 1}

\* ffn_all_w2.reshape(d_model, num_ffn, d_ff).sum(dim=1): column u of the
\* result is the sum of columns e * d_ff + u                       (3031-3035)
ColumnsOfReshape(u, num_ffn, d) == {e * d + u + 1 : e \in 0 .. num_ffn - 1}

KnowledgeMerge ==
    /\ entry = "kl-weight"
    /\ pc = "premerge"
    /\ ffn_all' =
           [a \in 1 .. d_ff |->
               [w1 |-> ScaledSum(knowledge_weight, ffn_list, d_ff,
                                 RowsOfReshape(a - 1, num_experts), "w1"),
                w2 |-> ScaledSum(knowledge_weight, ffn_list, d_ff,
                                 ColumnsOfReshape(a - 1, num_experts, d_ff), "w2"),
                w3 |-> ScaledSum(knowledge_weight, ffn_list, d_ff,
                                 RowsOfReshape(a - 1, num_experts), "w3")]]
    /\ pc' = "merged"
    /\ UNCHANGED <<num_experts, start_layer, group_limit, num_average_groups, entry,
                   usage, batch_idx, similarity_fn, similarity_base, features,
                   experts_weights, experts, merge_args, weights_before, d_ff,
                   ingredient, ffn_list, corr_matrix, permutation_matrix,
                   average_coefs, runs, hook_vars, mode_vars, strategy_vars>>
    /\ UNCHANGED_grouping

NextKnowledge == KnowledgeMerge

SpecKnowledge == InitKnowledge /\ [][NextKnowledge]_vars

\* ------------------------------------------------------------------------
\* _merge_moe_experts_with_dominant (2422-2476) on the experts of one group,
\* with the default coefficients (input_weight and average_coefs None), from
\* the swap to the normalised permutation matrix.  The caller passes the
\* group's experts in ascending order and the position of the core among them
\* (3104, 3204-3212).  A member is the expert it came from (its position in
\* the caller's list) and the activations of its d_ff units on two tokens,
\* each unit's activation summarised by its direction between the tokens.
ActDirections == {0 - 1, 0, 1}

InitDominant ==
    \E d \in 1 .. MaxDff, num_ffn \in 2 .. MaxFfn :
        /\ d * num_ffn <= MaxUnits
        /\ num_experts = num_ffn
        /\ start_layer = NumHiddenLayers - 1
        /\ entry = "fix-dom"
        /\ group_limit = num_ffn
        /\ num_average_groups = 1
        /\ usage = reset_usage_state(num_ffn, NumHiddenLayers - 1)
        /\ similarity_state = reset_similarity_state(num_ffn, NumHiddenLayers - 1)
        /\ pc = "premerge"
        /\ GroupingIdle(num_ffn, NumHiddenLayers - 1)
        /\ NoUsagePass
        /\ NoSimilarityPass
        /\ NoMerge
        /\ d_ff = d
        /\ ingredient = "act"
        /\ \E act \in [1 .. num_ffn -> [1 .. d -> ActDirections]] :
               ffn_list = [k \in 1 .. num_ffn |-> [expert |-> k - 1, act |-> act[k]]]
        /\ ffn_all = <<>>
        /\ corr_matrix = <<>>
        /\ permutation_matrix = <<>>
        /\ average_coefs = <<>>
        /\ knowledge_weight = <<>>
        /\ dominant_index \in 0 .. num_ffn - 1
        /\ dom_act = <<>>
        /\ group_indexes = <<>>
        /\ NoDistill
        /\ NoPartition
        /\ NoHooks
        /\ NoModes

\* compute_covariance (2088-2103) of two members' activations on two tokens:
\* the product of the directions of the two units (the epsilon of the
\* denominator scales every non-zero entry alike)
compute_covariance(act1, act2) ==
    [a \in DOMAIN act1 |-> [b \in DOMAIN act2 |-> act1[a] * act2[b] * CorrOne]]

\* torch.argmax(corr_matrix, dim=1): for every row the first maximal column,
\* counted from 0
ArgmaxRows(corr) ==
    [a \in DOMAIN corr |->
        (CHOOSE b \in DOMAIN corr[a] :
            \A c \in DOMAIN corr[a] :
                /\ corr[a][c] <= corr[a][b]
                /\ c < b => corr[a][c] < corr[a][b]) - 1]

\* ffn_list[0], ffn_list[dominant_index] = ffn_list[dominant_index], ffn_list[0]
SwapWithFirst(list, index) ==
    [list EXCEPT ![1] = list[index + 1], ![index + 1] = list[1]]

UNCHANGED_but_dominant ==
    /\ UNCHANGED <<num_experts, start_layer, group_limit, num_average_groups, entry,
                   usage, batch_idx, similarity_fn, similarity_base, features,
                   experts_weights, experts, merge_args, weights_before, d_ff,
                   ingredient, ffn_all, knowledge_weight, dominant_index, runs,
                   kd_labels, model_layers, partition_vars, hook_vars, mode_vars>>
    /\ UNCHANGED_grouping

\* 2436-2457: the coefficients, the swap, the identity block and dom_act
DominantAnchor ==
    /\ entry = "fix-dom"
    /\ pc = "premerge"
    /\ average_coefs' = [k \in 1 .. Len(ffn_list) |-> 1]
    /\ ffn_list' = IF dominant_index # 0 THEN SwapWithFirst(ffn_list, dominant_index)
                                          ELSE ffn_list
    /\ permutation_matrix' =
           [c \in 1 .. d_ff * Len(ffn_list) |->
               [r \in 1 .. d_ff |-> IF r = c THEN average_coefs'[1] ELSE 0]]
    /\ dom_act' = ffn_list'[dominant_index + 1]
    /\ pc' = "correlate"
    /\ UNCHANGED <<corr_matrix, group_indexes>>
    /\ UNCHANGED_but_dominant

\* The value of i in the pass of the loop 2459-2465 that appends next
NextOther == IF Len(group_indexes) < dominant_index THEN Len(group_indexes)
                                                    ELSE Len(group_indexes) + 1

\* One appending pass of the loop, 2459-2465.  An entry of group_indexes
\* carries, beside max_index, the expert whose activations gave it.
DominantCorrelate ==
    /\ entry = "fix-dom"
    /\ pc = "correlate"
    /\ NextOther < Len(ffn_list)
    /\ corr_matrix' = compute_covariance(dom_act.act, ffn_list[NextOther + 1].act)
    /\ group_indexes' = Append(group_indexes,
                               [expert |-> ffn_list[NextOther + 1].expert,
                                max_index |-> ArgmaxRows(corr_matrix')])
    /\ UNCHANGED <<ffn_list, permutation_matrix, average_coefs, dom_act, pc>>
    /\ UNCHANGED_but_dominant

\* 2466-2476: the blocks of the other members are filled and every row is
\* divided by its sum (1.0 being ZipGrid)
DominantPermute ==
    /\ entry = "fix-dom"
    /\ pc = "correlate"
    /\ ~(NextOther < Len(ffn_list))
    /\ LET filled ==
               [c \in 1 .. d_ff * Len(ffn_list) |-> [r \in 1 .. d_ff |->
                   IF c <= d_ff THEN permutation_matrix[c][r]
                   ELSE LET j == (c - 1) \div d_ff - 1
                            a == (c - 1) % d_ff
                        IN  IF group_indexes[j + 1].max_index[a + 1] = r - 1
                            THEN average_coefs[j + 1]
                            ELSE 0]]
           row_sum(r) == SumOver([c \in DOMAIN filled |-> filled[c][r]], DOMAIN filled)
       IN  permutation_matrix' =
               [c \in DOMAIN filled |-> [r \in 1 .. d_ff |->
                   (filled[c][r] * ZipGrid) \div row_sum(r)]]
    /\ pc' = "merged"
    /\ UNCHANGED <<ffn_list, corr_matrix, average_coefs, dom_act, group_indexes>>
    /\ UNCHANGED_but_dominant

NextDominant == DominantAnchor \/ DominantCorrelate \/ DominantPermute

SpecDominant == InitDominant /\ [][NextDominant]_vars

\* ------------------------------------------------------------------------
\* The grouper from its construction on: __init__ (258-302), then
\* compute_all_similarities (1216-1239) and cluster_experts (504-554) as the
\* driver calls them (merging-qwen.py 241-265, 284).
LEGAL_SIMILARITY_BASES ==
    {"weight", "feature", "feature.abs", "weight-feature", "gradient",
     "weight-gradient", "router-logits", "router-weight", "router-weight-feature",
     "mse", "random", "no", "feature-correlation.lsa", "feature-correlation.max",
     "expert-output", "weight+expert-output", "router-logits+weight",
     "router-logits+expert-output", "router-logits+weight+expert-output"}

\* The bases cluster_experts has a branch for (511-550)
ClusterBases ==
    {"weight", "expert-output", "weight+expert-output", "router-logits",
     "router-logits+weight", "router-logits+expert-output",
     "router-logits+weight+expert-output"}

ConstantVectors == {[k \in 1 .. FeatureDim |-> v] : v \in 0 .. MaxFeature}

InitConfig ==
    \E n \in TopK .. MaxExperts, s \in 0 .. NumHiddenLayers - 1 :
        /\ n * (NumHiddenLayers - s) <= MaxPool
        /\ num_experts = n
        /\ start_layer = s
        /\ entry = "config"
        /\ group_limit = n
        /\ num_average_groups \in 1 .. n
        /\ usage = <<>>
        /\ similarity_state = <<>>
        /\ group_state = <<>>
        /\ pc = "new"
        /\ layer_idx = s
        /\ i = 0
        /\ num_groups_per_layer = <<>>
        /\ NoLocals
        /\ dom_experts = <<>>
        /\ error = NoError
        /\ runs = 0
        /\ prev_result = <<>>
        /\ NoUsagePass
        /\ similarity_fn \in {"cosine", "mse", "unknown"}
        /\ similarity_base \in LEGAL_SIMILARITY_BASES \cup {"unknown"}
        /\ features \in [LayersFrom(s) -> [ExpertsOf(n) -> ConstantVectors]]
        /\ NoMerge
        /\ NoZip
        /\ NoHooks
        /\ NoModes
        /\ NoStrategy

\* __init__ (273-302): the two checks, then the fields and reset_all
Construct ==
    /\ pc = "new"
    /\ IF similarity_fn \notin {"cosine", "mse"}
       THEN /\ pc' = "error"
            /\ error' = Raised("ValueError: similarity_fn")
            /\ UNCHANGED <<usage, similarity_state, group_state>>
       ELSE IF similarity_base \notin LEGAL_SIMILARITY_BASES
       THEN /\ pc' = "error"
            /\ error' = Raised("ValueError: similarity_base")
            /\ UNCHANGED <<usage, similarity_state, group_state>>
       ELSE /\ pc' = "idle"
            /\ usage' = reset_usage_state(num_experts, start_layer)
            /\ similarity_state' = reset_similarity_state(num_experts, start_layer)
            /\ group_state' = reset_group_state(num_experts, start_layer)
            /\ UNCHANGED error
    /\ UNCHANGED <<num_experts, start_layer, group_limit, num_average_groups, entry,
                   batch_idx, similarity_fn, similarity_base, features,
                   experts_weights, experts, merge_args, weights_before, zip_vars,
                   hook_vars, mode_vars, strategy_vars>>
    /\ UNCHANGED <<layer_idx, i, num_groups_per_layer, core_expert_indices,
                   group_member_count, group_dict, similarity_matrix,
                   most_similar_core, most_similar_group_label, unsimilar_idx,
                   dom_experts, runs, prev_result>>

\* cluster_experts (504-554).  A branch hands the layers to the clustering,
\* which leaves a label below num_groups for every expert (583); the else
\* branch formats its message with the name similarity_base, which is not
\* defined in the function.
ClusterExperts ==
    /\ pc \in {"idle", "computed"}
    /\ entry = "config"
    /\ IF similarity_base \in ClusterBases
       THEN /\ group_state' \in [sparse_layer_indices ->
                                   [Experts -> 0 .. num_average_groups - 1]]
            /\ pc' = "clustered"
            /\ UNCHANGED error
       ELSE /\ pc' = "error"
            /\ error' = Raised("NameError: name 'similarity_base' is not defined")
            /\ UNCHANGED group_state
    /\ UNCHANGED <<similarity_state, layer_idx, i, num_groups_per_layer,
                   core_expert_indices, group_member_count, group_dict,
                   similarity_matrix, most_similar_core, most_similar_group_label,
                   unsimilar_idx, dom_experts, runs, prev_result>>
    /\ UNCHANGED_config

NextConfig == Construct \/ ComputeAllSimilarities \/ ClusterExperts

SpecConfig == InitConfig /\ [][NextConfig]_vars

\* ------------------------------------------------------------------------
\* The functions that collect activations through hooks on modules of the
\* model, on a grouper whose experts are grouped:
\*   "similarity"  _compute_all_similarities_by_expert_outputs (1321-1351)
\*   "clustering"  group_experts_by_clustering_output (647-678)
\*   "knowledge"   compute_knowledge_layerwise (1384-1470), called for one layer
\*   "merge"       merge_by_groups_within_and_across_models (3429-3538) with
\*                 partition = 1 and the default merge "zipit", whose layer loop
\*                 hands every group of several experts to
\*                 _merge_mixtral_moe_by_activation_matching_within_and_across_models
\* Only the hooks are followed here; what the functions compute is in the
\* specifications above.
Stages == {"similarity", "clustering", "knowledge", "merge"}

Hook(owner, kind, module, layer, index, run) ==
    [owner |-> owner, kind |-> kind, module |-> module, layer |-> layer,
     index |-> index, run |-> run]

\* The modules a function hooks, in the order of its registering loop:
\* 1409-1412 (a pre-hook from apply_mask and a forward hook from hijack on w2
\* of every expert of the layer), 1330-1338, 662-666 and 3458-3466 (a forward
\* hook on the MoE block of every eligible layer).
HookPlan(st, l, run) ==
    IF st = "knowledge"
    THEN [k \in 1 .. 2 * num_experts |->
             IF k % 2 = 1
             THEN Hook(st, "forward_pre", "experts.w2", l, (k - 1) \div 2, run)
             ELSE Hook(st, "forward", "experts.w2", l, (k - 2) \div 2, run)]
    ELSE [k \in 1 .. Cardinality(sparse_layer_indices) |->
             Hook(st, "forward", "block_sparse_moe", start_layer + k - 1, -1, run)]

InitHooks ==
    \E n \in TopK .. MaxExperts, s \in 0 .. NumHiddenLayers - 1 :
        /\ n * (NumHiddenLayers - s) <= MaxPool
        /\ num_experts = n
        /\ start_layer = s
        /\ entry = "hooks"
        /\ group_limit = n
        /\ num_average_groups = TopK
        /\ usage = reset_usage_state(n, s)
        /\ similarity_state = reset_similarity_state(n, s)
        /\ group_state \in [LayersFrom(s) -> [ExpertsOf(n) -> 0 .. TopK - 1]]
        /\ pc = "idle"
        /\ layer_idx = s
        /\ i = 0
        /\ num_groups_per_layer = <<>>
        /\ NoLocals
        /\ dom_experts = <<>>
        /\ error = NoError
        /\ runs = 0
        /\ prev_result = <<>>
        /\ NoUsagePass
        /\ NoSimilarityPass
        /\ NoMerge
        /\ d_ff = 0
        /\ ingredient \in {"act", "weight", "act+weight"}
        /\ ffn_list = <<>>
        /\ ffn_all = <<>>
        /\ corr_matrix = <<>>
        /\ permutation_matrix = <<>>
        /\ average_coefs = <<>>
        /\ NoHooks
        /\ NoModes
        /\ NoStrategy

UNCHANGED_but_hooks ==
    UNCHANGED <<num_experts, start_layer, group_limit, num_average_groups, entry,
                usage, similarity_state, group_state, i, num_groups_per_layer,
                core_expert_indices, group_member_count, group_dict,
                similarity_matrix, most_similar_core, most_similar_group_label,
                unsimilar_idx, dom_experts, error, prev_result, similarity_fn,
                similarity_base, features, experts_weights, experts, merge_args,
                weights_before, zip_vars, mode_vars, strategy_vars>>

\* A function is called: handles = []
StartStage ==
    /\ entry = "hooks"
    /\ pc = "idle"
    /\ runs < MaxRuns
    /\ runs' = runs + 1
    /\ stage' \in Stages
    /\ layer_idx' \in IF stage' = "knowledge" THEN sparse_layer_indices
                     ELSE {start_layer}
    /\ handles' = <<>>
    /\ batch_idx' = 0
    /\ pc' = "register"
    /\ UNCHANGED hooks
    /\ UNCHANGED_but_hooks

\* One pass of the registering loop: handles.append(module.register_...(hook))
RegisterHook ==
    /\ pc = "register"
    /\ Len(handles) < Len(HookPlan(stage, layer_idx, runs))
    /\ LET handle == HookPlan(stage, layer_idx, runs)[Len(handles) + 1]
       IN  /\ hooks' = hooks \cup {handle}
           /\ handles' = Append(handles, handle)
    /\ UNCHANGED <<pc, stage, layer_idx, batch_idx, runs>>
    /\ UNCHANGED_but_hooks

\* One batch of the dataloader goes through the model
ForwardBatch ==
    /\ pc \in {"register", "forward"}
    /\ Len(handles) = Len(HookPlan(stage, layer_idx, runs))
    /\ batch_idx < MaxBatches
    /\ batch_idx' = batch_idx + 1
    /\ pc' = "forward"
    /\ UNCHANGED <<stage, hooks, handles, layer_idx, runs>>
    /\ UNCHANGED_but_hooks

\* The dataloader is exhausted: "for handle in handles: handle.remove()"
\* (1349-1350, 677-678, 1467-1468, 3483-3484); then the function returns, or
\* part_processor goes on to its layer loop.
RemoveHandles ==
    /\ pc \in {"register", "forward"}
    /\ Len(handles) = Len(HookPlan(stage, layer_idx, runs))
    /\ hooks' = hooks \ Range(handles)
    /\ pc' = IF stage = "merge" THEN "merging" ELSE "idle"
    /\ UNCHANGED <<stage, handles, layer_idx, batch_idx, runs>>
    /\ UNCHANGED_but_hooks

\* "act" in ingredient                                                 (2711)
UsesActivations(ing) == ing \in {"act", "act+weight"}

\* The hooks a zip merge leaves on return, 2711-2725: the list handles stays
\* empty (2712), the handle of the hook on concat_ffn.w2 goes into the variable
\* handle (2717), and "for handle in handles: handle.remove()" (2722-2723) runs
\* over the empty list.
ZipMergeHooks(l, label, run) ==
    LET local_handles == <<>>
        handle == Hook("zipit", "forward", "concat_ffn.w2", l, label, run)
    IN  IF UsesActivations(ingredient) THEN {handle} \ Range(local_handles) ELSE {}

\* One pass of the layer loop of part_processor (3486-3526): the block's merge
\* calls the zip merge for every group of several experts (3182-3252).
MergeLayer ==
    /\ pc = "merging"
    /\ LET group_labels == group_state[layer_idx]
           merged_labels == {label \in {group_labels[e] : e \in Experts} :
                                Cardinality(expert_indices(group_labels, label)) > 1}
       IN  hooks' = hooks \cup UNION {ZipMergeHooks(layer_idx, label, runs) :
                                         label \in merged_labels}
    /\ IF layer_idx < NumHiddenLayers - 1
       THEN layer_idx' = layer_idx + 1 /\ pc' = pc
       ELSE layer_idx' = layer_idx /\ pc' = "idle"
    /\ UNCHANGED <<stage, handles, batch_idx, runs>>
    /\ UNCHANGED_but_hooks

NextHooks == StartStage \/ RegisterHook \/ ForwardBatch \/ RemoveHandles \/ MergeLayer

SpecHooks == InitHooks /\ [][NextHooks]_vars

\* ------------------------------------------------------------------------
\* all_in_one_knowledge_dominant (1473-1743): the hooks, the distillation
\* targets and the merged blocks, layer by layer.  merge_args holds the merge
\* argument and the number of batches of the dataloader; a distillation target
\* is the output of the model, given here by the blocks the model had when it
\* was computed.  group_limit is num_experts, so that the assignment of step 3
\* neither evicts nor raises; what it and the merges compute is in the
\* specifications above.
MergeChoices == {"zipit", "freq"}

\* 1534-1546: apply_mask and hijack on w2 of every expert, then the forward
\* hook on the MoE block of the layer
KnowledgeHookPlan(l, run) ==
    [k \in 1 .. 2 * num_experts + 1 |->
        IF k = 2 * num_experts + 1
        THEN Hook("all_in_one", "forward", "block_sparse_moe", l, -1, run)
        ELSE IF k % 2 = 1
        THEN Hook("all_in_one", "forward_pre", "experts.w2", l, (k - 1) \div 2, run)
        ELSE Hook("all_in_one", "forward", "experts.w2", l, (k - 2) \div 2, run)]

InitDistill ==
    \E n \in TopK .. MaxModeExperts, s \in 0 .. NumHiddenLayers - 1 :
        /\ num_experts = n
        /\ start_layer = s
        /\ entry = "knowledge-dominant"
        /\ group_limit = n
        /\ num_average_groups \in 1 .. TopK
        /\ usage = reset_usage_state(n, s)
        /\ similarity_state = reset_similarity_state(n, s)
        /\ group_state = [l \in LayersFrom(s) |-> [e \in ExpertsOf(n) |-> 0]]
        /\ pc = "register"
        /\ layer_idx = s
        /\ i = 0
        /\ num_groups_per_layer = <<>>
        /\ NoLocals
        /\ dom_experts = <<>>
        /\ error = NoError
        /\ runs = 1
        /\ prev_result = <<>>
        /\ NoUsagePass
        /\ NoSimilarityPass
        /\ experts_weights = <<>>
        /\ experts = <<>>
        /\ merge_args \in [merge : MergeChoices, batches : 1 .. MaxBatches]
        /\ weights_before = <<>>
        /\ d_ff = 0
        /\ ingredient = "act"
        /\ ffn_list = <<>>
        /\ ffn_all = <<>>
        /\ corr_matrix = <<>>
        /\ permutation_matrix = <<>>
        /\ average_coefs = <<>>
        /\ stage = "all_in_one"
        /\ hooks = {}
        /\ handles = <<>>
        /\ NoModes
        /\ knowledge_weight = <<>>
        /\ NoDominant
        /\ kd_labels = <<>>
        /\ model_layers = [l \in 0 .. NumHiddenLayers - 1 |-> "original"]
        /\ NoPartition

UNCHANGED_but_distill ==
    UNCHANGED <<num_experts, start_layer, group_limit, num_average_groups, entry,
                usage, similarity_state, i, num_groups_per_layer,
                core_expert_indices, group_member_count, group_dict,
                similarity_matrix, most_similar_core, most_similar_group_label,
                unsimilar_idx, dom_experts, error, prev_result, similarity_fn,
                similarity_base, features, experts_weights, experts, merge_args,
                weights_before, zip_vars, mode_vars, stage, runs,
                knowledge_weight, dominant_index, dom_act, group_indexes,
                partition_vars>>

\* One handles.append(...) of 1534-1546
DistillRegister ==
    /\ entry = "knowledge-dominant"
    /\ pc = "register"
    /\ Len(handles) < Len(KnowledgeHookPlan(layer_idx, runs))
    /\ LET handle == KnowledgeHookPlan(layer_idx, runs)[Len(handles) + 1]
       IN  /\ hooks' = hooks \cup {handle}
           /\ handles' = Append(handles, handle)
    /\ UNCHANGED <<pc, layer_idx, batch_idx, group_state, kd_labels, model_layers>>
    /\ UNCHANGED_but_distill

\* One batch of the loop 1553-1633: in the first layer of
\* sparse_layer_indices the softened output is appended to kd_labels, in the
\* others the target is read from kd_labels (1564-1569)
DistillBatch ==
    /\ entry = "knowledge-dominant"
    /\ pc \in {"register", "forward"}
    /\ Len(handles) = Len(KnowledgeHookPlan(layer_idx, runs))
    /\ batch_idx < merge_args.batches
    /\ batch_idx' = batch_idx + 1
    /\ kd_labels' = IF layer_idx = start_layer THEN Append(kd_labels, model_layers)
                                              ELSE kd_labels
    /\ pc' = "forward"
    /\ UNCHANGED <<hooks, handles, layer_idx, group_state, model_layers>>
    /\ UNCHANGED_but_distill

\* for handle in handles: handle.remove()                              (1651-1652)
LeaveInstalled(installed, listed) == installed

RemoveAll(installed, listed) == installed \ Range(listed)

\* The dataloader is exhausted: the scores are computed and the handles
\* removed, 1635-1653
DistillRemove ==
    /\ entry = "knowledge-dominant"
    /\ pc = "forward"
    /\ batch_idx = merge_args.batches
    /\ hooks' = RemoveAll(hooks, handles)
    /\ handles' = <<>>
    /\ pc' = "grouping"
    /\ UNCHANGED <<layer_idx, batch_idx, group_state, kd_labels, model_layers>>
    /\ UNCHANGED_but_distill

\* Steps 3 and 4 of the layer, 1656-1741: the experts are grouped around
\* num_groups cores and the block is replaced by the merged block; the zip
\* merge of every group of several experts leaves its hook (2711-2725).  Then
\* the loop goes to the next layer or the function returns.
DistillGroupMerge ==
    /\ entry = "knowledge-dominant"
    /\ pc = "grouping"
    /\ \E group_labels \in [Experts -> 0 .. num_average_groups - 1] :
          /\ \A label \in 0 .. num_average_groups - 1 :
                 \E e \in Experts : group_labels[e] = label
          /\ group_state' = [group_state EXCEPT ![layer_idx] = group_labels]
          /\ LET merged_labels ==
                     {label \in 0 .. num_average_groups - 1 :
                         Cardinality(expert_indices(group_labels, label)) > 1}
             IN  hooks' = IF merge_args.merge = "freq" THEN hooks
                          ELSE hooks \cup UNION {ZipMergeHooks(layer_idx, label, runs) :
                                                    label \in merged_labels}
    /\ model_layers' = [model_layers EXCEPT ![layer_idx] = "merged"]
    /\ IF layer_idx < NumHiddenLayers - 1
       THEN layer_idx' = layer_idx + 1 /\ pc' = "register" /\ batch_idx' = 0
       ELSE layer_idx' = layer_idx /\ pc' = "done" /\ batch_idx' = batch_idx
    /\ UNCHANGED <<handles, kd_labels>>
    /\ UNCHANGED_but_distill

NextDistill == DistillRegister \/ DistillBatch \/ DistillRemove \/ DistillGroupMerge

SpecDistill == InitDistill /\ [][NextDistill]_vars

\* ------------------------------------------------------------------------
\* merge_by_groups_within_and_across_models (3429-3538) for every partition
\* argument, with the default merge "zipit" and ingredient "act", on a model of
\* TopK experts whose eligible layers are 0 .. Len(layer_list) - 1 and whose
\* experts are grouped.
InitPartition ==
    \E num_layers \in 1 .. MaxPartLayers :
        /\ num_experts = TopK
        /\ start_layer = 0
        /\ entry = "partition"
        /\ group_limit = TopK
        /\ num_average_groups = TopK
        /\ usage = reset_usage_state(TopK, 0)
        /\ similarity_state = reset_similarity_state(TopK, 0)
        /\ group_state \in [0 .. num_layers - 1 -> [ExpertsOf(TopK) -> 0 .. TopK - 1]]
        /\ pc = "call"
        /\ layer_idx = 0
        /\ i = 0
        /\ num_groups_per_layer = <<>>
        /\ NoLocals
        /\ dom_experts = <<>>
        /\ error = NoError
        /\ runs = 1
        /\ prev_result = <<>>
        /\ NoUsagePass
        /\ NoSimilarityPass
        /\ NoMerge
        /\ d_ff = 0
        /\ ingredient = "act"
        /\ ffn_list = <<>>
        /\ ffn_all = <<>>
        /\ corr_matrix = <<>>
        /\ permutation_matrix = <<>>
        /\ average_coefs = <<>>
        /\ stage = "merge"
        /\ hooks = {}
        /\ handles = <<>>
        /\ NoModes
        /\ knowledge_weight = <<>>
        /\ NoDominant
        /\ kd_labels = <<>>
        /\ model_layers = [l \in 0 .. num_layers - 1 |-> "original"]
        /\ partition \in 1 .. MaxPartition
        /\ layer_list = [k \in 1 .. num_layers |-> k - 1]
        /\ cur_indices = <<>>
        /\ merge_log = <<>>

UNCHANGED_but_partition ==
    UNCHANGED <<num_experts, start_layer, group_limit, num_average_groups, entry,
                usage, similarity_state, group_state, num_groups_per_layer,
                core_expert_indices, group_member_count, group_dict,
                similarity_matrix, most_similar_core, most_similar_group_label,
                unsimilar_idx, dom_experts, prev_result, similarity_fn,
                similarity_base, features, experts_weights, experts, merge_args,
                weights_before, zip_vars, mode_vars, stage, runs, batch_idx,
                knowledge_weight, dominant_index, dom_act, group_indexes,
                kd_labels, partition, layer_list>>

\* partition_num = len(grouper.sparse_layer_indices) // partition       (3528)
partition_num == Len(layer_list) \div partition

\* range(0, len(grouper.sparse_layer_indices), partition_num) is built, 3529:
\* range() raises ValueError when its step is 0
PartitionRange ==
    /\ entry = "partition"
    /\ pc = "call"
    /\ IF partition_num = 0
       THEN /\ pc' = "error"
            /\ error' = Raised("ValueError: range() arg 3 must not be zero")
       ELSE /\ pc' = "partition"
            /\ error' = error
    /\ UNCHANGED <<i, layer_idx, hooks, handles, model_layers, cur_indices, merge_log>>
    /\ UNCHANGED_but_partition

\* grouper.sparse_layer_indices[i:i+partition_num]                      (3530)
Slice(list, from, count) ==
    [k \in 1 .. (IF from + count <= Len(list) THEN count ELSE Len(list) - from) |->
        list[from + k]]

\* One pass of the loop 3529-3532, up to the end of the collecting part of
\* part_processor (3455-3484): the hooks on the blocks of cur_indices are
\* registered, the dataloader is run and the handles are removed
PartCollect ==
    /\ entry = "partition"
    /\ pc = "partition"
    /\ i < Len(layer_list)
    /\ cur_indices' = Slice(layer_list, i, partition_num)
    /\ handles' = [k \in 1 .. Len(cur_indices') |->
                      Hook("merge", "forward", "block_sparse_moe", cur_indices'[k], -1, runs)]
    /\ hooks' = (hooks \cup Range(handles')) \ Range(handles')
    /\ layer_idx' = cur_indices'[1]
    /\ pc' = "merging"
    /\ UNCHANGED <<i, error, model_layers, merge_log>>
    /\ UNCHANGED_but_partition

\* One pass of the layer loop of part_processor (3486-3524); after the last
\* layer of cur_indices part_processor returns and i advances by partition_num
PartMergeLayer ==
    /\ entry = "partition"
    /\ pc = "merging"
    /\ LET group_labels == group_state[layer_idx]
           merged_labels == {label \in {group_labels[e] : e \in Experts} :
                                Cardinality(expert_indices(group_labels, label)) > 1}
       IN  hooks' = hooks \cup UNION {ZipMergeHooks(layer_idx, label, runs) :
                                         label \in merged_labels}
    /\ model_layers' = [model_layers EXCEPT ![layer_idx] = "merged"]
    /\ merge_log' = Append(merge_log, layer_idx)
    /\ IF layer_idx # cur_indices[Len(cur_indices)]
       THEN /\ layer_idx' = layer_idx + 1
            /\ UNCHANGED <<pc, i>>
       ELSE /\ layer_idx' = layer_idx
            /\ pc' = "partition"
            /\ i' = i + partition_num
    /\ UNCHANGED <<error, handles, cur_indices>>
    /\ UNCHANGED_but_partition

\* The range is exhausted: return mixtral_model                         (3538)
PartitionReturn ==
    /\ entry = "partition"
    /\ pc = "partition"
    /\ ~(i < Len(layer_list))
    /\ pc' = "done"
    /\ UNCHANGED <<i, layer_idx, error, hooks, handles, model_layers, cur_indices,
                   merge_log>>
    /\ UNCHANGED_but_partition

NextPartition == PartitionRange \/ PartCollect \/ PartMergeLayer \/ PartitionReturn

SpecPartition == InitPartition /\ [][NextPartition]_vars

\* The call runs to its end unless it raises
FairSpecPartition == SpecPartition /\ WF_vars(NextPartition)

\* ------------------------------------------------------------ properties
Members(l, g) == {e \in Experts : group_state[l][e] = g}

Returned == pc = "done" /\ entry = "global"

\* The last layer's loop has run to its end after at least one eviction
ReturnsAfterEviction ==
    /\ entry = "global"
    /\ pc = "assign"
    /\ i = num_experts
    /\ layer_idx = NumHiddenLayers - 1
    /\ \E a \in Experts, b \in Experts : similarity_matrix[a][b] = Sentinel

\* C1: after group_experts_globally_from_dominant_experts returns, in every
\* eligible layer every expert's label lies in 0..G-1 (G the layer's group
\* count) and each of the G groups has at least one member.
C1_LabelsPartition ==
    Returned =>
        \A l \in sparse_layer_indices :
            /\ \A e \in Experts :
                   group_state[l][e] \in 0 .. num_groups_per_layer[l] - 1
            /\ \A g \in 0 .. num_groups_per_layer[l] - 1 : Members(l, g) # {}

C1_Witness ==
    /\ ReturnsAfterEviction
    /\ \A g \in 0 .. num_groups_per_layer[layer_idx] - 1 : Members(layer_idx, g) # {}

\* C2: whenever group_experts_globally_from_dominant_experts returns normally,
\* no group of any eligible layer has more than group_limit members, counted on
\* the label vector.
C2_GroupsWithinLimit ==
    Returned =>
        \A l \in sparse_layer_indices :
            \A g \in 0 .. num_groups_per_layer[l] - 1 :
                Cardinality(Members(l, g)) <= group_limit

C2_Witness ==
    /\ ReturnsAfterEviction
    /\ group_limit < num_experts
    /\ \E g \in 0 .. num_groups_per_layer[layer_idx] - 1 :
           Cardinality(Members(layer_idx, g)) = group_limit

\* C3: for every input the evict-and-reassign loop terminates: the call ends by
\* returning or by raising.
C3_Terminates == <>(pc \in {"done", "error"})

\* C4: with exactly one core in a layer and group_limit < num_experts the
\* assignment (either function) raises the "too small" error naming the layer,
\* and never enters the eviction loop or completes the layer; with
\* group_limit >= num_experts it raises nothing and all experts share one group.
SingleCore == pc \in {"assign", "evict", "reassign", "error"} /\ Len(core_expert_indices) = 1

C4_TooSmall ==
    /\ (SingleCore /\ group_limit < num_experts) =>
           \/ pc = "assign" /\ i < num_experts
           \/ pc = "error" /\ error = [kind |-> "too small", layer |-> layer_idx]
    /\ (SingleCore /\ group_limit >= num_experts) =>
           /\ pc = "assign"
           /\ \A e \in 0 .. i - 1 : group_state[layer_idx][e] = 0
    /\ error.kind = "too small" => SingleCore /\ group_limit < num_experts

C4_Witness ==
    /\ entry = "global"
    /\ pc = "error"
    /\ error = [kind |-> "too small", layer |-> NumHiddenLayers - 1]
    /\ start_layer < NumHiddenLayers - 1

C4_WitnessAllInOne ==
    /\ entry = "all_in_one"
    /\ pc = "error"
    /\ error.kind = "too small"

C4_WitnessOneGroup ==
    /\ SingleCore
    /\ group_limit >= num_experts
    /\ pc = "assign"
    /\ i = num_experts
    /\ \A e \in Experts : group_state[layer_idx][e] = 0

\* C5: for num_average_groups < num_experts, with every eligible layer in
\* merging_layers, the group counts _assign_num_groups_per_layer returns sum to
\* exactly num_average_groups times the number of eligible layers.
C5_CountsSumToBudget ==
    (pc = "assigned" /\ num_average_groups < num_experts) =>
        SumOver(num_groups_per_layer, sparse_layer_indices)
            = num_average_groups * Cardinality(sparse_layer_indices)

\* C6: when num_average_groups equals num_experts the reserved slot makes at
\* least one layer receive fewer than num_experts groups.
C6_ReservedSlotMerges ==
    (pc = "assigned" /\ num_average_groups = num_experts) =>
        \E l \in sparse_layer_indices : num_groups_per_layer[l] < num_experts

\* C7: in every state the grouper reaches through construction, reset_all and
\* compute_all_similarities, each layer's stored similarity matrix is symmetric
\* and no off-diagonal entry exceeds the diagonal entry of its row.
C7_SymmetricDiagonalMax ==
    entry = "similarity" =>
        \A l \in sparse_layer_indices : \A a \in Experts, b \in Experts :
            /\ similarity_state[l][a][b] = similarity_state[l][b][a]
            /\ similarity_state[l][a][b] <= similarity_state[l][a][a]

\* C8: after compute_all_usages in frequency mode over a non-empty calibration
\* stream every eligible layer's usage vector is non-negative and sums to 1,
\* also when the call started from the usage an earlier call had left.
C8_FrequencySumsToOne ==
    (entry = "usage" /\ pc = "idle" /\ runs >= 1) =>
        \A l \in sparse_layer_indices :
            /\ usage[l].den > 0
            /\ \A e \in Experts : usage[l].num[e] >= 0
            /\ SumOver(usage[l].num, Experts) = usage[l].den

C8_Witness ==
    /\ entry = "usage"
    /\ pc = "idle"
    /\ runs = MaxRuns
    /\ batch_idx = MaxBatches
    /\ \E l \in sparse_layer_indices : \E e \in Experts : usage[l].num[e] = 0

\* C9: a second call of group_experts_globally_from_dominant_experts with the
\* same usage, similarity, budget and limit returns the labels and cores the
\* first call returned.
C9_Idempotent ==
    (Returned /\ prev_result # <<>>) =>
        /\ group_state = prev_result.labels
        /\ dom_experts = prev_result.cores

C9_Witness ==
    /\ Returned
    /\ runs = MaxRuns
    /\ \E l \in sparse_layer_indices :
           /\ num_groups_per_layer[l] < num_experts
           /\ \E e \in Experts : group_state[l][e] # e

\* C10: under every merge strategy an expert that is alone in its group keeps
\* its three weight matrices as they were before the merge, whatever its usage
\* frequency, 0 included.
C10_SingletonUnchanged ==
    (entry = "merge" /\ pc = "merged") =>
        \A e \in Experts :
            expert_indices(merge_args.group_labels, merge_args.group_labels[e]) = {e}
                => experts_weights[e] = weights_before[e]

\* C11: the usage-weighted average merge of a group of two experts with equal
\* usage weight leaves in the group's expert the elementwise mean (a + b) / 2
\* of the members' w1, w2 and w3 (stated for the members whose mean lies on the
\* grid of the stored dtype).
EqualPair(a, b) ==
    /\ a < b
    /\ expert_indices(merge_args.group_labels, merge_args.group_labels[a]) = {a, b}
    /\ merge_args.usage_frequencies[a] = merge_args.usage_frequencies[b]

C11_EqualWeightsMean ==
    (entry = "merge" /\ pc = "merged" /\ merge_args.merge = "freq") =>
        \A a \in Experts, b \in Experts : EqualPair(a, b) =>
            \A m \in {"w1", "w2", "w3"} :
                (weights_before[a][m] + weights_before[b][m]) % 2 = 0 =>
                    2 * experts_weights[a][m]
                        = weights_before[a][m] + weights_before[b][m]

\* The same statement for pairs whose common usage weight is not zero
C11_EqualNonZeroWeightsMean ==
    (entry = "merge" /\ pc = "merged" /\ merge_args.merge = "freq") =>
        \A a \in Experts, b \in Experts :
            (EqualPair(a, b) /\ merge_args.usage_frequencies[a] > 0) =>
                \A m \in {"w1", "w2", "w3"} :
                    (weights_before[a][m] + weights_before[b][m]) % 2 = 0 =>
                        2 * experts_weights[a][m]
                            = weights_before[a][m] + weights_before[b][m]

\* C12: when the loop of the greedy zip merge (unit coefficients) has ended,
\* the permutation matrix has exactly d_ff columns, every original unit has a
\* non-zero entry in exactly one column, every normalised column sums to 1, and
\* the merged w1 / w3 rows and w2 columns are normalized_permutation^T applied
\* to the original concatenated weights.
Contributes(r, c) == permutation_matrix[c][r] > 0

ZipInvariant ==
    /\ Len(permutation_matrix) = d_ff
    /\ \A r \in DOMAIN ffn_list :
           Cardinality({c \in DOMAIN permutation_matrix : Contributes(r, c)}) = 1
    /\ \A c \in DOMAIN permutation_matrix :
           /\ SumOver(permutation_matrix[c], DOMAIN ffn_list) = ZipGrid
           /\ \A m \in {"w1", "w2", "w3"} :
                  ffn_all[c][m] * ZipGrid =
                      SumOver([r \in DOMAIN ffn_list |->
                                  permutation_matrix[c][r] * ffn_list[r][m]],
                              DOMAIN ffn_list)

C12_ZipInvariant == (entry = "zipit" /\ pc = "zipped") => ZipInvariant

\* The same statement for one ingredient, where every correlation between two
\* different units is above the -1 of the diagonal
C12_SingleIngredient ==
    (entry = "zipit" /\ pc = "zipped" /\ ingredient # "act+weight") => ZipInvariant

\* C13: a similarity basis the pipeline cannot handle is rejected when the
\* grouper is constructed: on a grouper __init__ has accepted, neither
\* compute_all_similarities nor cluster_experts ends in the error of its
\* unknown-basis branch.
UnknownBasisErrors ==
    {"NotImplementedError", "NameError: name 'similarity_base' is not defined"}

C13_BasisRejectedAtConstruction ==
    entry = "config" => error.kind \notin UnknownBasisErrors

\* C14: a merge call with a strategy string that is none of the known ones
\* fails with an error and leaves the block's expert weights as they were; it
\* is never executed as some other strategy.
KnownStrategies ==
    {"average", "freq", "weighted", "prune", "zipit", "update", "fix-dom",
     "fix-dom-same", "unmerge", "kl-weight"}

C14_UnknownStrategyFails ==
    (entry = "merge" /\ pc # "premerge" /\ merge_args.merge \notin KnownStrategies) =>
        /\ pc = "error"
        /\ experts_weights = weights_before

\* The same statement for the merge of the block wrapper alone
C14_WrapperRejects ==
    (entry = "merge" /\ pc # "premerge" /\ merge_args.caller = "wrapper"
        /\ merge_args.merge \notin KnownStrategies) =>
        /\ pc = "error"
        /\ error.kind = "ValueError: Invalid merge method"
        /\ experts_weights = weights_before

\* C15: every hook a stage registers is removed before the stage returns:
\* after the expert-output similarity pass, a clustering stage,
\* compute_knowledge_layerwise, merge_by_groups_within_and_across_models and
\* each zip-merge call no hook of that stage is registered any more.
C15_HooksRemoved ==
    /\ (entry = "hooks" /\ pc = "idle") => hooks = {}
    /\ (entry = "hooks" /\ pc = "merging") => hooks = {}

\* The same statement for the hooks whose handles went into a list
C15_ListedHandlesRemoved ==
    (entry = "hooks" /\ pc \in {"idle", "merging"}) =>
        \A h \in hooks : h.owner = "zipit"

\* C16: starting from pairwise distinct modules, after a usage-weighted merge
\* or a dispatched activation-matching merge every slot references the module
\* of the lowest-index member of its group, and slots of different groups
\* reference different modules.
SharingMerges == {"freq", "weighted", "average", "zipit"}

C16_MembersShareModule ==
    (entry = "merge" /\ pc = "merged" /\ merge_args.merge \in SharingMerges)
        => \A e, f \in Experts :
              LET labels == merge_args.group_labels
              IN  /\ experts[e] = experts[FirstOf(expert_indices(labels, labels[e]))]
                  /\ (labels[e] = labels[f]) <=> (experts[e] = experts[f])

C16_Witness ==
    /\ entry = "merge" /\ pc = "merged" /\ merge_args.merge = "zipit"
    /\ merge_args.caller = "driver"
    /\ \E e, f, g \in Experts :
          /\ e < f
          /\ merge_args.group_labels[e] = merge_args.group_labels[f]
          /\ merge_args.group_labels[g] # merge_args.group_labels[e]
          /\ experts[f] = experts[e]
          /\ experts[g] # experts[e]
\* C17: in the dominant-anchored assignment the cores of a layer are its G
\* highest-usage experts in descending order of usage, and the k-th core has
\* label k at every step from the seeding to the return: no eviction removes a
\* core from its group or relabels it.
CoresAreTopUsage(l) ==
    LET cores == dom_experts[l]
        u == usage[l].num
    IN  /\ Len(cores) = num_groups_per_layer[l]
        /\ \A j, k \in 1 .. Len(cores) : j < k =>
               cores[j] # cores[k] /\ u[cores[j]] >= u[cores[k]]
        /\ \A e \in Experts \ Range(cores) :
               \A k \in 1 .. Len(cores) : u[e] <= u[cores[k]]

CoresKeepLabel(l) ==
    \A k \in 1 .. Len(dom_experts[l]) : group_state[l][dom_experts[l][k]] = k - 1

C17_CoresTopUsageKeepLabel ==
    (entry = "global" /\ pc \in {"assign", "evict", "reassign", "done"})
        => /\ \A l \in DOMAIN dom_experts : CoresAreTopUsage(l) /\ CoresKeepLabel(l)
           /\ pc # "done" =>
                  \A k \in 1 .. Len(core_expert_indices) :
                      group_dict[k - 1][1] = core_expert_indices[k]

\* A call has returned in which an expert as similar to the first core as the
\* core is to itself was evicted from the first core's group
C17_Witness ==
    /\ entry = "global" /\ pc = "done" /\ runs = 1
    /\ \E l \in DOMAIN dom_experts :
          /\ Len(dom_experts[l]) >= 2
          /\ \E e \in Experts \ Range(dom_experts[l]) :
                /\ usage[l].num[e] < usage[l].num[dom_experts[l][1]]
                /\ similarity_state[l][e][dom_experts[l][1]] = SimOne
                /\ group_state[l][e] # 0
\* C18: in the grouping step of all_in_one_knowledge_dominant, at every test of
\* the eviction loop's condition group_member_count[g] is the number of
\* experts in group g, and when the layer's assignment is complete no group
\* has more than group_limit members.
CountsMatchGroups ==
    \A g \in DOMAIN group_member_count :
        /\ group_member_count[g] = Len(group_dict[g])
        /\ \A k \in 1 .. Len(group_dict[g]) :
               group_state[layer_idx][group_dict[g][k]] = g

AssignedMembers(g) ==
    {e \in Experts : group_state[layer_idx][e] = g
                     /\ (e < i \/ e \in Range(core_expert_indices))}

C18_CountsMatchAndWithinLimit ==
    (entry = "all_in_one" /\ pc \in {"assign", "evict"})
        => /\ CountsMatchGroups
           /\ (pc = "assign" /\ i = num_experts) =>
                  \A g \in DOMAIN group_member_count :
                      Cardinality(AssignedMembers(g)) <= group_limit

\* The same statement for group_experts_globally_from_dominant_experts, whose
\* eviction decrements the counter of the group that is over the limit
C18_GlobalCountsMatch ==
    (entry = "global" /\ pc \in {"assign", "evict"})
        => /\ CountsMatchGroups
           /\ (pc = "assign" /\ i = num_experts) =>
                  \A g \in DOMAIN group_member_count :
                      Cardinality(AssignedMembers(g)) <= group_limit
\* C19: after group_experts_layerwise_by_freq, in every layer the k-th core has
\* label k and every other expert has the label of a core it is most similar
\* to, whichever experts the cores are.
LayerwiseLabels(l) ==
    LET cores == dom_experts[l]
        sim == similarity_state[l]
    IN  /\ \A k \in 1 .. Len(cores) : group_state[l][cores[k]] = k - 1
        /\ \A e \in Experts \ Range(cores) :
               \E k \in 1 .. Len(cores) :
                   /\ group_state[l][e] = k - 1
                   /\ \A j \in 1 .. Len(cores) : sim[e][cores[j]] <= sim[e][cores[k]]

C19_LayerwiseLabels ==
    (entry = "layerwise" /\ pc = "done")
        => \A l \in sparse_layer_indices : LayerwiseLabels(l)

\* The statement holds in the layers whose cores are the experts
\* 0..num_groups-1
C19_CoresFirstIndices ==
    (entry = "layerwise" /\ pc = "done")
        => \A l \in sparse_layer_indices :
              Range(dom_experts[l]) = ExpertsOf(num_average_groups)
                  => LayerwiseLabels(l)
\* C20: whenever a group is over group_limit, the expert the eviction removes
\* is a member other than the core whose similarity to the group's core is the
\* minimum over the group's members other than the core, whatever the
\* similarity matrix.
EvictsLeastSimilar ==
    (pc = "evict" /\ pc' = "reassign")
        => LET members == group_dict[most_similar_group_label]
               sim == similarity_matrix[most_similar_core]
           IN  /\ \E k \in 2 .. Len(members) : members[k] = unsimilar_idx'
               /\ \A k \in 2 .. Len(members) :
                      sim[unsimilar_idx'] <= sim[members[k]]

C20_EvictsLeastSimilar == [][EvictsLeastSimilar]_vars

\* The statement holds on the matrices in which no similarity exceeds the
\* diagonal's 1.0
C20_AtMostOne ==
    [][(\A a, b \in Experts : similarity_state[layer_idx][a][b] <= SimOne)
          => EvictsLeastSimilar]_vars

\* C21: within one layer's assignment every eviction marks a pair (expert,
\* core) that was not marked before, and the evicted expert's next group is
\* that of a core it has not been evicted from.
EvictionMarksNewPair ==
    (pc = "evict" /\ pc' = "reassign")
        => similarity_matrix[unsimilar_idx'][most_similar_core] # Sentinel

ReassignedToNewCore ==
    (pc = "reassign" /\ pc' # "reassign")
        => similarity_matrix[unsimilar_idx][most_similar_core'] # Sentinel

C21_NeverBackToSameGroup ==
    [][entry = "global" => (EvictionMarksNewPair /\ ReassignedToNewCore)]_vars

\* The statement holds for an expert that still has an unmarked core
C21_WhileUnmarkedCoreLeft ==
    [][(/\ entry = "global"
        /\ pc = "reassign"
        /\ \E k \in 1 .. Len(core_expert_indices) :
               similarity_matrix[unsimilar_idx][core_expert_indices[k]] # Sentinel)
          => ReassignedToNewCore]_vars

\* The statement holds in the layers whose groups can hold all experts
C21_WithinCapacity ==
    [][(/\ entry = "global"
        /\ pc \in {"evict", "reassign"}
        /\ num_groups_per_layer[layer_idx] * group_limit >= num_experts)
          => (EvictionMarksNewPair /\ ReassignedToNewCore)]_vars

\* C22, as the specification states it: after an eviction the similarity
\* matrix the grouper holds for the layer has the sentinel at the evicted
\* pair.
C22_StoredMatrixMarked ==
    (entry = "global" /\ pc = "reassign")
        => similarity_state[layer_idx][unsimilar_idx][most_similar_core] = Sentinel

\* C22, amended: the assignment works on the copy get_similarity_matrix
\* returns.  The sentinel is written into that copy, the matrix the grouper
\* holds never changes and never contains the sentinel.
C22_OnlyCopyMarked ==
    [][/\ entry \in {"global", "all_in_one"} => similarity_state' = similarity_state
       /\ (entry = "global" /\ pc = "evict" /\ pc' = "reassign")
             => /\ similarity_matrix'[unsimilar_idx'][most_similar_core] = Sentinel
                /\ similarity_matrix'[most_similar_core][unsimilar_idx'] = Sentinel
                /\ \A a, b \in Experts :
                       similarity_state'[layer_idx][a][b] # Sentinel]_vars

\* An expert has just been evicted
C22_Witness ==
    /\ entry = "global"
    /\ pc = "reassign"
    /\ similarity_matrix[unsimilar_idx][most_similar_core] = Sentinel
    /\ similarity_state[layer_idx][unsimilar_idx][most_similar_core] # Sentinel

\* C23: after compute_all_usages in routing-score mode on a freshly
\* constructed grouper, over a stream of any number of batches, no expert's
\* usage exceeds 1 and the layer's values sum to at most 1.
C23_ScoresAtMostOne ==
    (entry = "modes" /\ pc = "idle" /\ runs = 1 /\ mode = "routing-score")
        => \A l \in sparse_layer_indices :
              /\ \A e \in Experts : usage[l].num[e] <= usage[l].den
              /\ SumOver(usage[l].num, Experts) <= usage[l].den

\* The statement holds for a stream of one batch
C23_OneBatch ==
    (/\ entry = "modes" /\ pc = "idle" /\ runs = 1 /\ mode = "routing-score"
     /\ batch_idx = 1)
        => \A l \in sparse_layer_indices :
              SumOver(usage[l].num, Experts) = usage[l].den

\* C24: the usage vector after a call of compute_all_usages is the vector the
\* same call leaves on a freshly constructed grouper, whatever earlier calls
\* left.
SameVector(u, v) ==
    \A e \in Experts : u.num[e] * v.den = v.num[e] * u.den

C24_UsageOverwritten ==
    (entry = "modes" /\ pc = "idle" /\ runs >= 1)
        => \A l \in sparse_layer_indices : SameVector(usage[l], usage_alone[l])

\* The statement holds for the first call on a grouper
C24_FirstCall ==
    (entry = "modes" /\ pc = "idle" /\ runs = 1)
        => \A l \in sparse_layer_indices : SameVector(usage[l], usage_alone[l])

\* C25: in the knowledge-weighted merge of a group, with scores that can be
\* normalised, unit u of the merged w1, w3 and w2 is the sum over the group's
\* experts e of the normalised score of (e, u) times unit u of expert e.
PerUnitSum(u, matrix) ==
    SumOver([e \in Experts |->
                Knowledge(knowledge_weight, d_ff, e * d_ff + u + 1).num
                    * ffn_list[e * d_ff + u + 1][matrix]],
            Experts)

ScoresNormalisable ==
    \A u \in 0 .. d_ff - 1 : ColSum(knowledge_weight, d_ff, u) > 0

C25_UnitwiseKnowledgeSum ==
    (entry = "kl-weight" /\ pc = "merged" /\ ScoresNormalisable)
        => \A u \in 0 .. d_ff - 1 : \A matrix \in {"w1", "w2", "w3"} :
              /\ ~ffn_all[u + 1][matrix].nan
              /\ ffn_all[u + 1][matrix].num = PerUnitSum(u, matrix)

\* The statement holds for w2, and for w1 and w3 when the experts have one
\* unit
C25_W2AndOneUnit ==
    (entry = "kl-weight" /\ pc = "merged" /\ ScoresNormalisable)
        => \A u \in 0 .. d_ff - 1 :
              /\ ffn_all[u + 1].w2.num = PerUnitSum(u, "w2")
              /\ d_ff = 1
                    => /\ ffn_all[u + 1].w1.num = PerUnitSum(u, "w1")
                       /\ ffn_all[u + 1].w3.num = PerUnitSum(u, "w3")

\* C26: in the dominant-anchored merge, whatever the position of the core in
\* the group's list, the anchor the others are correlated with is the
\* designated dominant expert, every other member is correlated exactly once,
\* and block j of the permutation columns belongs to the member whose
\* correlation gave the j-th index assignment.
AnchorIsDominant == dom_act.expert = dominant_index

OthersCorrelatedOnce ==
    /\ Len(group_indexes) = Len(ffn_list) - 1
    /\ {group_indexes[j].expert : j \in DOMAIN group_indexes}
           = (0 .. Len(ffn_list) - 1) \ {dominant_index}

BlocksMatchCorrelations ==
    \A j \in DOMAIN group_indexes : group_indexes[j].expert = ffn_list[j + 1].expert

C26_AnchorIsDominant ==
    (entry = "fix-dom" /\ pc = "merged")
        => AnchorIsDominant /\ OthersCorrelatedOnce /\ BlocksMatchCorrelations

\* The statement holds when the core is the first expert of the group
C26_CoreFirst ==
    (entry = "fix-dom" /\ pc = "merged" /\ dominant_index = 0)
        => AnchorIsDominant /\ OthersCorrelatedOnce /\ BlocksMatchCorrelations

\* When the core is not the first expert of the group, the anchor is the
\* group's first expert and the core is correlated with it as an other member
C26_CoreElsewhere ==
    (entry = "fix-dom" /\ pc = "merged" /\ dominant_index # 0)
        => /\ dom_act.expert = 0
           /\ ffn_list[1].expert = dominant_index
           /\ group_indexes[1].expert = dominant_index

\* C27: no merge strategy divides by zero: for any non-negative knowledge
\* scores, also when the scores of some unit are all 0, every denominator of
\* the knowledge-weighted merge is non-zero and no merged weight is NaN.
C27_DenominatorsNonZero ==
    (entry = "kl-weight" /\ pc = "merged")
        => \A u \in 0 .. d_ff - 1 :
              /\ ColSum(knowledge_weight, d_ff, u) # 0
              /\ \A matrix \in {"w1", "w2", "w3"} : ~ffn_all[u + 1][matrix].nan

\* A merged w2 column is NaN exactly when the scores of its unit are all 0
C27_NaNWhereAllScoresZero ==
    (entry = "kl-weight" /\ pc = "merged")
        => \A u \in 0 .. d_ff - 1 :
              ffn_all[u + 1].w2.nan
                  <=> \A e \in Experts : knowledge_weight[e * d_ff + u + 1] = 0

\* C28: in all_in_one_knowledge_dominant the layers are processed strictly in
\* order; at every moment the mask and capture hooks on modules of the model
\* are on one layer at most; the hooks of a layer are all removed before its
\* experts are grouped and merged and before a hook of the next layer is
\* installed; and the distillation targets used by the later layers are those
\* captured in the pass of the first eligible layer, before any merge.
ModelHooks == {h \in hooks : h.module \in {"experts.w2", "block_sparse_moe"}}

HooksOnCurrentLayerOnly ==
    /\ \A h \in ModelHooks : h.layer = layer_idx
    /\ pc \in {"grouping", "done"} => ModelHooks = {}

TargetsFromUnmergedModel ==
    /\ \A k \in DOMAIN kd_labels : \A l \in DOMAIN kd_labels[k] :
           kd_labels[k][l] = "original"
    /\ layer_idx > start_layer => Len(kd_labels) = merge_args.batches

LayersInOrder ==
    \A l \in sparse_layer_indices : model_layers[l] = "merged" <=> 
        (l < layer_idx \/ (l = layer_idx /\ pc = "done"))

StepsInOrder ==
    /\ layer_idx' \in {layer_idx, layer_idx + 1}
    /\ layer_idx' = layer_idx + 1 => ModelHooks = {} /\ model_layers'[layer_idx] = "merged"
    /\ model_layers' # model_layers => ModelHooks = {}
    /\ layer_idx > start_layer => kd_labels' = kd_labels

C28_OneLayerAtATime ==
    /\ [](entry = "knowledge-dominant"
            => HooksOnCurrentLayerOnly /\ TargetsFromUnmergedModel /\ LayersInOrder)
    /\ [][entry = "knowledge-dominant" => StepsInOrder]_vars

\* The second layer's pass is under way: its hooks are installed, the first
\* layer is merged and the targets of the first pass are there
C28_Witness ==
    /\ entry = "knowledge-dominant"
    /\ layer_idx = start_layer + 1
    /\ pc = "forward"
    /\ ModelHooks # {}
    /\ model_layers[start_layer] = "merged"
    /\ merge_args.merge = "zipit"
    /\ Len(kd_labels) = MaxBatches

\* C29: for every partition count >= 1 and every number of eligible layers,
\* the merge by groups processes the eligible layers in consecutive disjoint
\* partitions, merges each eligible layer exactly once in increasing order,
\* and completes, also when partition exceeds or does not divide the number
\* of eligible layers.
IsPrefix(s, t) == Len(s) <= Len(t) /\ \A k \in 1 .. Len(s) : s[k] = t[k]

MergedOnceInOrder ==
    /\ IsPrefix(merge_log, layer_list)
    /\ pc = "done" => merge_log = layer_list

C29_EachLayerOnceAndCompletes ==
    entry = "partition" => error = NoError /\ MergedOnceInOrder

\* The statement holds when partition does not exceed the number of eligible
\* layers, whether it divides it or not
C29_PartitionWithinLayers ==
    (entry = "partition" /\ partition <= Len(layer_list))
        => error = NoError /\ MergedOnceInOrder

\* ... and then the call returns
C29_ThenCompletes ==
    (entry = "partition" /\ partition <= Len(layer_list)) ~> pc = "done"

\* With partition above the number of eligible layers nothing is merged
C29_PartitionAboveLayers ==
    (entry = "partition" /\ partition > Len(layer_list))
        => merge_log = <<>> /\ pc \in {"call", "error"}

\* C30: _assign_num_groups_per_layer gives every eligible layer at least one
\* group, for every distribution of the usage over the layers, also for a
\* layer whose experts all have a usage below the global threshold.
C30_EveryLayerHasAGroup ==
    (entry = "assign" /\ pc = "assigned")
        => \A l \in sparse_layer_indices : num_groups_per_layer[l] >= 1

\* A layer is left without a group exactly when all its usages are below the
\* threshold, that is when more than the budget of pool entries exceed its
\* largest usage
C30_NoGroupBelowThreshold ==
    (entry = "assign" /\ pc = "assigned")
        => \A l \in sparse_layer_indices :
              num_groups_per_layer[l] = 0
                  <=> \A e \in Experts :
                         Scaled(usage, l, e)
                             < SortedPoolEntry(usage, num_experts,
                                   TotalNumGroups(usage, num_experts, num_average_groups,
                                                  sparse_layer_indices))

\* Every layer has a group when the budget is not below the number of experts
\* of the other layers
C30_BudgetCoversOtherLayers ==
    (/\ entry = "assign"
     /\ pc = "assigned"
     /\ TotalNumGroups(usage, num_experts, num_average_groups, sparse_layer_indices)
            >= num_experts * (Cardinality(sparse_layer_indices) - 1))
        => \A l \in sparse_layer_indices : num_groups_per_layer[l] >= 1
====
